---- MODULE Spec2Model ----
(***************************************************************************)
(* A model of the certificate pool of nebula (package cert): the CA pool   *)
(* of cert/ca.go, the certificate verification it feeds, and the loading   *)
(* of a PEM bundle of CA certificates.                                     *)
(*                                                                         *)
(* Three specifications share the module:                                  *)
(*   Spec        the pool API driven call by call (AddCACertificate,       *)
(*               BlocklistFingerprint, ResetCertBlocklist, IsBlocklisted,  *)
(*               Verify);                                                  *)
(*   SpecVerify  Verify as a pure function of (certificate, time, pool),   *)
(*               inputs drawn in Init;                                     *)
(*   SpecLoad    NewCAPoolFromBytes, one loop iteration per step.          *)
(***************************************************************************)
EXTENDS Integers, Sequences, FiniteSets, TLC

VARIABLES
    CAs,            \* NebulaCAPool.CAs: fingerprint -> certificate
    certBlocklist,  \* NebulaCAPool.certBlocklist: set of fingerprints
    calls,          \* history: the blocklist calls made on the pool, in order
    arg,            \* the arguments of the call in progress / last call
    ret,            \* what the last call returned
    caPEMs,         \* NewCAPoolFromBytes: the bytes still to be consumed
    warnings,       \* NewCAPoolFromBytes: warnings collected so far
    good,           \* NewCAPoolFromBytes: certificates added without error
    now,            \* the wall clock read by AddCACertificate (time.Now())
    pc,             \* NewCAPoolFromBytes: "idle", "loop" or "done"
    firewall,       \* Interface.firewall: the *Firewall in use
    fws,            \* the Firewall objects: rules, rulesVersion, Conntrack
    conns,          \* the FirewallConntrack objects: their entries
    ctLock,         \* who holds the lock of each FirewallConntrack
    reloadLock,     \* who holds the reload mutex of the configuration
    rpc,            \* each reloading goroutine's position
    rloc,           \* reloadFirewall's locals: fw, oldFw, conntrack
    stores,         \* reloadFirewall's writes not yet visible to other goroutines
    installed,      \* history: every firewall as it was, or is being, installed
    destroyed,      \* the firewalls on which Destroy was called
    obs,            \* what a goroutine last read through Interface.firewall
    closed,         \* Interface.closed
    writers,        \* Interface.writers: each UDP connection, open or closed
    inside,         \* Interface.inside: the TUN device, open or closed
    cpc,            \* each goroutine calling Close: its position
    cret,           \* what each call of Close returned
    errlog,         \* errors logged by Close
    lpc,            \* each listenIn goroutine's position
    lerr,           \* each listenIn goroutine's err, and f.closed as it then stood
    exitCode,       \* "running", or the code os.Exit ended the process with
    sendRecvErrorConfig,  \* Interface.sendRecvErrorConfig
    settings,       \* the configuration: the value of listen.send_recv_error
    oldSettings,    \* the configuration before the last reload
    hostMap,        \* each Interface's hostMap: Hosts, Relays, Indexes
    rlock,          \* the readers holding each hostMap's RWMutex
    rend            \* RenderHostmaps: its position, arguments and locals

reloadVars ==
    <<firewall, fws, conns, ctLock, reloadLock, rpc, rloc, stores, installed, destroyed, obs>>

closeVars == <<closed, writers, inside, cpc, cret, errlog, lpc, lerr, exitCode>>

policyVars == <<sendRecvErrorConfig, settings, oldSettings>>

renderVars == <<hostMap, rlock, rend>>

ifaceVars == <<reloadVars, closeVars, policyVars, renderVars>>

vars == <<CAs, certBlocklist, calls, arg, ret, caPEMs, warnings, good, now, pc, ifaceVars>>

\* nothing read through Interface.firewall yet
NoObs == [fw |-> 0, rules |-> "none", rulesVersion |-> 0, Conntrack |-> 0]

\* no Interface exists
ReloadIdle ==
    /\ firewall = 0
    /\ fws = <<>>
    /\ conns = <<>>
    /\ ctLock = <<>>
    /\ reloadLock = "free"
    /\ rpc = <<>>
    /\ rloc = <<>>
    /\ stores = {}
    /\ installed = {}
    /\ destroyed = {}
    /\ obs = NoObs

CloseIdle ==
    /\ closed = FALSE
    /\ writers = <<>>
    /\ inside = "none"
    /\ cpc = <<>>
    /\ cret = <<>>
    /\ errlog = 0
    /\ lpc = <<>>
    /\ lerr = <<>>
    /\ exitCode = "running"

\* no configuration is loaded
PolicyIdle ==
    /\ sendRecvErrorConfig = "always"
    /\ settings = "unloaded"
    /\ oldSettings = "unloaded"

\* no hostmap exists and nothing is rendered
RenderIdle ==
    /\ hostMap = <<>>
    /\ rlock = <<>>
    /\ rend = <<>>

IfaceIdle == ReloadIdle /\ CloseIdle /\ PolicyIdle /\ RenderIdle

----------------------------------------------------------------------------
(* Bounds of the model. *)

\* instants are 0..MaxTime
MaxTime == 3
\* a certificate carries at most MaxEntries ips, subnets and groups in total
MaxEntries == 3
\* the history of blocklist calls is followed for MaxCalls calls
MaxCalls == 3
\* a PEM bundle holds at most MaxBlocks items (blocks and stretches of text)
MaxBlocks == 3

Times == 0..MaxTime

----------------------------------------------------------------------------
(* Addresses and networks: net.IPNet, an IPv4 address and a mask of four   *)
(* octets each.                                                            *)

RECURSIVE BitAnd(_, _)
BitAnd(a, b) ==
    IF a = 0 \/ b = 0 THEN 0
    ELSE (IF a % 2 = 1 /\ b % 2 = 1 THEN 1 ELSE 0) + 2 * BitAnd(a \div 2, b \div 2)

\* net.IPNet.Contains: every octet of the address agrees with the network
\* under the network's mask.
Contains(n, ip) ==
    \A i \in 1..Len(n.IP) : BitAnd(n.IP[i], n.Mask[i]) = BitAnd(ip[i], n.Mask[i])

\* the number of leading one bits of an octet, or -1 if a one follows a zero
OctetOnes(o) ==
    CASE o = 255 -> 8 [] o = 254 -> 7 [] o = 252 -> 6 [] o = 248 -> 5
      [] o = 240 -> 4 [] o = 224 -> 3 [] o = 192 -> 2 [] o = 128 -> 1
      [] o = 0 -> 0 [] OTHER -> -1

\* net.IPMask.Size: the prefix length of a canonical mask, -1 otherwise
RECURSIVE MaskSize(_)
MaskSize(m) ==
    IF m = <<>> THEN 0
    ELSE LET h == OctetOnes(Head(m))
             t == MaskSize(Tail(m))
         IN  IF h = -1 \/ t = -1 THEN -1
             ELSE IF h = 8 THEN 8 + t
             ELSE IF t = 0 THEN h
             ELSE -1

\* net.IPNet.String: "ip/len" for a canonical mask, "ip/hexmask" otherwise
NetString(n) ==
    IF MaskSize(n.Mask) >= 0 THEN <<n.IP, "/", MaskSize(n.Mask)>>
    ELSE <<n.IP, "/", "hex", n.Mask>>

----------------------------------------------------------------------------
(* Certificates: NebulaCertificate with its Details and its signature.     *)
(* A key pair is named by one string; SignedBy names the pair whose        *)
(* private half produced the signature over the Details.                   *)

Range(s) == {s[i] : i \in 1..Len(s)}

Net(ip, mask) == [IP |-> ip, Mask |-> mask]

NewCert(name, ips, subnets, groups, nb, na, pub, isCA, issuer, signedBy) ==
    [Name |-> name, Ips |-> ips, Subnets |-> subnets, Groups |-> groups,
     NotBefore |-> nb, NotAfter |-> na, PublicKey |-> pub, IsCA |-> isCA,
     Issuer |-> issuer, SignedBy |-> signedBy]

\* NebulaCertificate.Sha256Sum: the digest of the marshalled certificate,
\* one distinct value per distinct content.
Sha256Sum(c) ==
    <<c.Name, c.Ips, c.Subnets, c.Groups, c.NotBefore, c.NotAfter,
      c.PublicKey, c.IsCA, c.Issuer, c.SignedBy>>

\* a certificate that cannot be marshalled has no fingerprint
\* (sha256SumWithCache returns an error)
Unmarshalable == NewCert("unmarshalable", <<>>, <<>>, <<>>, 0, 0, "kNone", FALSE, <<>>, "kNone")

SumErr(c) == c = Unmarshalable

\* NebulaCertificate.CheckSignature
CheckSignature(c, key) == c.SignedBy = key

\* NebulaCertificate.Expired
Expired(c, t) == c.NotBefore > t \/ c.NotAfter < t

\* the groups of a certificate as the set built when it is unmarshalled
InvertedGroups(c) == Range(c.Groups)

\* maskContains: octet by octet, the CA's mask is no greater than the
\* certificate's
maskContains(caMask, certMask) ==
    \A i \in 1..Len(caMask) : ~(caMask[i] > certMask[i])

\* netMatch: some network of the root holds the address under a mask no
\* longer than the certificate's
netMatch(certIp, rootIps) ==
    \E i \in 1..Len(rootIps) :
        Contains(rootIps[i], certIp.IP) /\ maskContains(rootIps[i].Mask, certIp.Mask)

----------------------------------------------------------------------------
(* Errors.  An error is a record of its message and what the message      *)
(* names; NoErr is nil.                                                    *)

Err(msg, what) == [msg |-> msg, what |-> what]
NoErr == Err("", <<>>)

ErrBlockListed == Err("certificate is in the block list", <<>>)
ErrRootExpired == Err("root certificate is expired", <<>>)
ErrExpired == Err("certificate is expired", <<>>)
ErrSignatureMismatch == Err("certificate signature did not match", <<>>)
ErrNoIssuer == Err("no issuer in certificate", <<>>)
ErrNoCA == Err("could not find ca for the certificate", <<>>)
ErrExpiresAfterRoot == Err("certificate expires after signing certificate", <<>>)
ErrValidBeforeRoot == Err("certificate is valid before the signing certificate", <<>>)
ErrGroup(g) == Err("certificate contained a group not present on the signing ca: ", <<g>>)
ErrIp(n) ==
    Err("certificate contained an ip assignment outside the limitations of the signing ca: ",
        NetString(n))
ErrSubnet(n) ==
    Err("certificate contained a subnet assignment outside the limitations of the signing ca: ",
        NetString(n))

\* the least index at which the sequence of booleans ok is FALSE, 0 if there
\* is none: where a range loop that returns on the first failure stops
FirstBad(ok) ==
    IF \E i \in 1..Len(ok) : ~ok[i]
    THEN CHOOSE i \in 1..Len(ok) : ~ok[i] /\ \A j \in 1..(i - 1) : ok[j]
    ELSE 0

----------------------------------------------------------------------------
(* The CA pool (cert/ca.go).  A pool is the pair of its two maps; the      *)
(* state variables CAs and certBlocklist hold the pool the calls act on.  *)

Pool(cas, blocklist) == [CAs |-> cas, certBlocklist |-> blocklist]

\* NewCAPool
NewCAPool == Pool(<<>>, {})

\* m[k] = v on a Go map
MapPut(m, k, v) == [x \in (DOMAIN m) \cup {k} |-> IF x = k THEN v ELSE m[x]]

\* BlocklistFingerprint: the blocklist after the call
BlocklistFingerprint(blocklist, f) == blocklist \cup {f}

\* ResetCertBlocklist: the blocklist after the call
ResetCertBlocklistKeeps(blocklist) == blocklist
ResetCertBlocklist(blocklist) == {}

\* isBlocklistedWithCache
isBlocklistedNever(pool, c) == FALSE
isBlocklistedInverted(pool, c) ==
    IF SumErr(c) THEN TRUE
    ELSE IF Sha256Sum(c) \notin pool.certBlocklist THEN TRUE
    ELSE FALSE
isBlocklistedWithCache(pool, c) ==
    IF SumErr(c) THEN TRUE
    ELSE IF Sha256Sum(c) \in pool.certBlocklist THEN TRUE
    ELSE FALSE

\* IsBlocklisted
IsBlocklisted(pool, c) == isBlocklistedWithCache(pool, c)

\* GetCAForCert: the signer and the error
GetCAForCertByOwnSum(pool, c) ==
    IF c.Issuer = <<>> THEN [signer |-> c, err |-> ErrNoIssuer]
    ELSE IF Sha256Sum(c) \in DOMAIN pool.CAs
         THEN [signer |-> pool.CAs[Sha256Sum(c)], err |-> NoErr]
         ELSE [signer |-> c, err |-> ErrNoCA]
GetCAForCert(pool, c) ==
    IF c.Issuer = <<>> THEN [signer |-> c, err |-> ErrNoIssuer]
    ELSE IF c.Issuer \in DOMAIN pool.CAs
         THEN [signer |-> pool.CAs[c.Issuer], err |-> NoErr]
         ELSE [signer |-> c, err |-> ErrNoCA]

\* GetFingerprints, as a set
GetFingerprints(pool) == DOMAIN pool.CAs

----------------------------------------------------------------------------
(* PEM input.  The bytes of a bundle are a sequence of items: a PEM block  *)
(* (its banner, and the certificate its body unmarshals to, if it does),   *)
(* a stretch of white space, or a stretch of other text (a comment, a      *)
(* broken block).                                                          *)

CertBanner == "NEBULA CERTIFICATE"
CertBannerV2 == "NEBULA CERTIFICATE V2"

Block(banner, decodes, c) == [kind |-> "block", banner |-> banner, decodes |-> decodes, cert |-> c]
Space == [kind |-> "space", banner |-> "", decodes |-> FALSE, cert |-> Unmarshalable]
Text == [kind |-> "text", banner |-> "", decodes |-> FALSE, cert |-> Unmarshalable]

ErrInvalidPEMBlock == Err("input did not contain a valid PEM encoded block", <<>>)
ErrInvalidPEMCertificateBanner ==
    Err("bytes did not contain a proper nebula certificate banner", <<>>)
ErrInvalidPEMCertificateUnsupported ==
    Err("bytes contain an unsupported certificate format", <<>>)
ErrUnmarshal == Err("could not unmarshal certificate", <<>>)
ErrNotCA == Err("certificate is not a CA", <<>>)
ErrNotSelfSigned == Err("certificate is not self-signed", <<>>)
ErrShasum == Err("could not calculate shasum for provided CA", <<>>)
ErrNoValidCA == Err("no valid CA certificates present", <<>>)

\* fmt.Errorf("%s: %w", name, e): e with the name it is reported under
Wrap(name, e) == Err(e.msg, <<name>>)

\* errors.Is
ErrorsIs(e, target) == e # NoErr /\ e.msg = target.msg

\* pem.Decode: the first block of the input and what follows it; text and
\* white space before the block are skipped; with no block, found is FALSE
\* and rest is the whole input
PemDecodeKeepsBlock(b) ==
    IF \E i \in 1..Len(b) : b[i].kind = "block"
    THEN LET i == CHOOSE k \in 1..Len(b) :
                      b[k].kind = "block" /\ \A j \in 1..(k - 1) : b[j].kind # "block"
         IN  [found |-> TRUE, block |-> b[i], rest |-> SubSeq(b, i, Len(b))]
    ELSE [found |-> FALSE, block |-> Text, rest |-> b]
PemDecode(b) ==
    IF \E i \in 1..Len(b) : b[i].kind = "block"
    THEN LET i == CHOOSE k \in 1..Len(b) :
                      b[k].kind = "block" /\ \A j \in 1..(k - 1) : b[j].kind # "block"
         IN  [found |-> TRUE, block |-> b[i], rest |-> SubSeq(b, i + 1, Len(b))]
    ELSE [found |-> FALSE, block |-> Text, rest |-> b]

\* UnmarshalNebulaCertificateFromPEM: (certificate, rest, err)
UnmarshalNebulaCertificateFromPEM(b) ==
    LET p == PemDecode(b)
    IN  IF ~p.found THEN [c |-> Unmarshalable, rest |-> p.rest, err |-> ErrInvalidPEMBlock]
        ELSE IF p.block.banner = CertBannerV2
             THEN [c |-> Unmarshalable, rest |-> p.rest,
                   err |-> Wrap(p.block.banner, ErrInvalidPEMCertificateUnsupported)]
        ELSE IF p.block.banner # CertBanner
             THEN [c |-> Unmarshalable, rest |-> p.rest, err |-> ErrInvalidPEMCertificateBanner]
        ELSE IF ~p.block.decodes
             THEN [c |-> Unmarshalable, rest |-> p.rest, err |-> ErrUnmarshal]
        ELSE [c |-> p.block.cert, rest |-> p.rest, err |-> NoErr]

\* strings.TrimSpace(string(b)) == ""
IsBlank(b) == \A i \in 1..Len(b) : b[i].kind = "space"

\* AddCACertificate at the instant t: the pool's CAs after the call, the
\* remaining bytes and the error
AddCACertificateExpiredFirst(cas, pemBytes, t) ==
    LET u == UnmarshalNebulaCertificateFromPEM(pemBytes)
        c == u.c
    IN  IF u.err # NoErr THEN [CAs |-> cas, rest |-> u.rest, err |-> u.err]
        ELSE IF ~c.IsCA THEN [CAs |-> cas, rest |-> u.rest, err |-> Wrap(c.Name, ErrNotCA)]
        ELSE IF ~CheckSignature(c, c.PublicKey)
             THEN [CAs |-> cas, rest |-> u.rest, err |-> Wrap(c.Name, ErrNotSelfSigned)]
        ELSE IF SumErr(c) THEN [CAs |-> cas, rest |-> u.rest, err |-> ErrShasum]
        ELSE IF Expired(c, t)
             THEN [CAs |-> cas, rest |-> u.rest, err |-> Wrap(c.Name, ErrExpired)]
        ELSE [CAs |-> MapPut(cas, Sha256Sum(c), c), rest |-> u.rest, err |-> NoErr]
AddCACertificateNoCACheck(cas, pemBytes, t) ==
    LET u == UnmarshalNebulaCertificateFromPEM(pemBytes)
        c == u.c
    IN  IF u.err # NoErr THEN [CAs |-> cas, rest |-> u.rest, err |-> u.err]
        ELSE IF SumErr(c) THEN [CAs |-> cas, rest |-> u.rest, err |-> ErrShasum]
        ELSE IF Expired(c, t)
             THEN [CAs |-> MapPut(cas, Sha256Sum(c), c), rest |-> u.rest,
                   err |-> Wrap(c.Name, ErrExpired)]
        ELSE [CAs |-> MapPut(cas, Sha256Sum(c), c), rest |-> u.rest, err |-> NoErr]
AddCACertificate(cas, pemBytes, t) ==
    LET u == UnmarshalNebulaCertificateFromPEM(pemBytes)
        c == u.c
    IN  IF u.err # NoErr THEN [CAs |-> cas, rest |-> u.rest, err |-> u.err]
        ELSE IF ~c.IsCA THEN [CAs |-> cas, rest |-> u.rest, err |-> Wrap(c.Name, ErrNotCA)]
        ELSE IF ~CheckSignature(c, c.PublicKey)
             THEN [CAs |-> cas, rest |-> u.rest, err |-> Wrap(c.Name, ErrNotSelfSigned)]
        ELSE IF SumErr(c) THEN [CAs |-> cas, rest |-> u.rest, err |-> ErrShasum]
        ELSE IF Expired(c, t)
             THEN [CAs |-> MapPut(cas, Sha256Sum(c), c), rest |-> u.rest,
                   err |-> Wrap(c.Name, ErrExpired)]
        ELSE [CAs |-> MapPut(cas, Sha256Sum(c), c), rest |-> u.rest, err |-> NoErr]

----------------------------------------------------------------------------
(* Verification of a certificate against the pool.                         *)

\* CheckRootConstrains: the error, NoErr if the certificate stays within
\* what its signer allows
CheckRootConstrains(c, signer) ==
    LET badGroup == FirstBad([i \in 1..Len(c.Groups) |-> c.Groups[i] \in InvertedGroups(signer)])
        badIp == FirstBad([i \in 1..Len(c.Ips) |-> netMatch(c.Ips[i], signer.Ips)])
        badSubnet ==
            FirstBad([i \in 1..Len(c.Subnets) |-> netMatch(c.Subnets[i], signer.Subnets)])
    IN  IF signer.NotAfter < c.NotAfter THEN ErrExpiresAfterRoot
        ELSE IF signer.NotBefore > c.NotBefore THEN ErrValidBeforeRoot
        ELSE IF InvertedGroups(signer) # {} /\ badGroup # 0 THEN ErrGroup(c.Groups[badGroup])
        ELSE IF Len(signer.Ips) > 0 /\ badIp # 0 THEN ErrIp(c.Ips[badIp])
        ELSE IF Len(signer.Subnets) > 0 /\ badSubnet # 0 THEN ErrSubnet(c.Subnets[badSubnet])
        ELSE NoErr

\* NebulaCertificate.Verify: (ok, err)
Verify(c, t, pool) ==
    LET ca == GetCAForCert(pool, c)
        signer == ca.signer
        constrains == CheckRootConstrains(c, signer)
    IN  IF isBlocklistedWithCache(pool, c) THEN [ok |-> FALSE, err |-> ErrBlockListed]
        ELSE IF ca.err # NoErr THEN [ok |-> FALSE, err |-> ca.err]
        ELSE IF Expired(signer, t) THEN [ok |-> FALSE, err |-> ErrRootExpired]
        ELSE IF Expired(c, t) THEN [ok |-> FALSE, err |-> ErrExpired]
        ELSE IF ~CheckSignature(c, signer.PublicKey)
             THEN [ok |-> FALSE, err |-> ErrSignatureMismatch]
        ELSE IF constrains # NoErr THEN [ok |-> FALSE, err |-> constrains]
        ELSE [ok |-> TRUE, err |-> NoErr]

----------------------------------------------------------------------------
(* The certificates the model draws its inputs from: the CAs and the      *)
(* leaf certificates of TestNebulaCertificate_Verify, _Verify_IPs and      *)
(* _Verify_Subnets, over the instants 0..MaxTime.                          *)

\* sequences over S of length at most n
RECURSIVE SeqsUpTo(_, _)
SeqsUpTo(S, n) ==
    IF n = 0 THEN {<<>>}
    ELSE LET shorter == SeqsUpTo(S, n - 1)
         IN  shorter \cup {Append(q, x) : q \in shorter, x \in S}

\* 10.0.0.0/16 and 192.168.0.0/24, the networks of the restricted CA
CaNets ==
    << Net(<<10, 0, 0, 0>>, <<255, 255, 0, 0>>),
       Net(<<192, 168, 0, 0>>, <<255, 255, 255, 0>>) >>

\* 10.1.0.0/24 lies outside both; 10.0.1.0/15 lies inside the first under a
\* shorter mask; 192.168.0.1/25 lies inside the second
NetPool ==
    { Net(<<10, 1, 0, 0>>, <<255, 255, 255, 0>>),
      Net(<<10, 0, 1, 0>>, <<255, 254, 0, 0>>),
      Net(<<192, 168, 0, 1>>, <<255, 255, 255, 128>>) }

GroupPool == {"test1", "bad"}

\* newTestCaCert: a self-signed CA valid from 1 to 2
CaOpen == NewCert("test ca", <<>>, <<>>, <<>>, 1, 2, "kOpen", TRUE, <<>>, "kOpen")
CaLim ==
    NewCert("limited ca", CaNets, CaNets, <<"test1", "test2">>, 1, 2, "kLim", TRUE, <<>>, "kLim")
\* a CA that is in no pool
CaStranger == NewCert("stranger ca", <<>>, <<>>, <<>>, 1, 2, "kStranger", TRUE, <<>>, "kStranger")

TrustedCAs == MapPut(MapPut(<<>>, Sha256Sum(CaOpen), CaOpen), Sha256Sum(CaLim), CaLim)

\* newTestCert: a certificate issued and signed by ca
Issue(ca, ips, subnets, groups, nb, na) ==
    NewCert("testing", ips, subnets, groups, nb, na, "kLeaf", FALSE, Sha256Sum(ca), ca.PublicKey)

\* the lists a leaf certificate carries: at most MaxEntries entries in all
LeafLists ==
    { l \in [ips : SeqsUpTo(NetPool, MaxEntries),
             subnets : SeqsUpTo(NetPool, MaxEntries),
             groups : SeqsUpTo(GroupPool, MaxEntries)] :
        Len(l.ips) + Len(l.subnets) + Len(l.groups) <= MaxEntries }

Windows == {w \in Times \X Times : w[1] <= w[2]}

\* certificates issued by a CA of the pool
IssuedCerts ==
    { Issue(ca, l.ips, l.subnets, l.groups, w[1], w[2]) :
        ca \in {CaOpen, CaLim}, l \in LeafLists, w \in Windows }

\* certificates with no issuer, an issuer outside the pool, or a signature
\* that is not the issuer's
OddCerts ==
    { NewCert("testing", <<>>, <<>>, <<>>, w[1], w[2], "kLeaf", FALSE, i, k) :
        w \in Windows, i \in {<<>>, Sha256Sum(CaStranger), Sha256Sum(CaOpen)},
        k \in {"kStranger"} }

LeafCerts == IssuedCerts \cup OddCerts

----------------------------------------------------------------------------
(* State shared by the specifications.                                     *)

NoArg == [op |-> "none", c |-> Unmarshalable, t |-> 0, f |-> <<>>]
NoRet == [op |-> "none", ok |-> FALSE, err |-> NoErr]

thePool == Pool(CAs, certBlocklist)

LoadIdle ==
    /\ caPEMs = <<>>
    /\ warnings = <<>>
    /\ good = 0
    /\ pc = "idle"

loadVars == <<caPEMs, warnings, good, pc>>

----------------------------------------------------------------------------
(* SpecVerify: Verify(c, t, pool) on inputs drawn in Init.                 *)

InitVerify ==
    /\ arg \in [op : {"Verify"}, c : LeafCerts, t : Times, f : {<<>>}]
    /\ CAs = TrustedCAs
    /\ certBlocklist \in {{}, {Sha256Sum(arg.c)}}
    /\ calls = <<>>
    /\ ret = NoRet
    /\ now = 0
    /\ LoadIdle
    /\ IfaceIdle

DoVerify ==
    /\ arg.op = "Verify"
    /\ ret = NoRet
    /\ LET r == Verify(arg.c, arg.t, thePool)
       IN  ret' = [op |-> "Verify", ok |-> r.ok, err |-> r.err]
    /\ UNCHANGED <<CAs, certBlocklist, calls, arg, now, loadVars, ifaceVars>>

NextVerify == DoVerify

SpecVerify == InitVerify /\ [][NextVerify]_vars

----------------------------------------------------------------------------
(* Spec: a pool made by NewCAPool and driven through its API.              *)

\* the leaf certificates presented to the pool
ApiCerts ==
    { Issue(CaOpen, <<>>, <<>>, <<>>, 1, 2),
      Issue(CaLim, <<>>, <<>>, <<"test1", "bad">>, 1, 2),
      Unmarshalable }

\* the fingerprints configured as pki.blocklist entries
FingerprintPool ==
    {Sha256Sum(c) : c \in ApiCerts \ {Unmarshalable}} \cup {<<"00ff">>}

\* the CA certificates handed to AddCACertificate, one PEM block each
CaPemPool == {<<Block(CertBanner, TRUE, ca)>> : ca \in {CaOpen, CaLim}}

Init ==
    /\ CAs = NewCAPool.CAs
    /\ certBlocklist = NewCAPool.certBlocklist
    /\ calls = <<>>
    /\ arg = NoArg
    /\ ret = NoRet
    /\ now \in Times
    /\ LoadIdle
    /\ IfaceIdle

AddCACertificateCall ==
    \E pem \in CaPemPool :
        LET a == AddCACertificate(CAs, pem, now)
        IN  /\ CAs' = a.CAs
            /\ arg' = [op |-> "AddCACertificate", c |-> pem[1].cert, t |-> now, f |-> <<>>]
            /\ ret' = [op |-> "AddCACertificate", ok |-> a.err = NoErr, err |-> a.err]
            /\ UNCHANGED <<certBlocklist, calls, now, loadVars, ifaceVars>>

BlocklistFingerprintCall ==
    \E f \in FingerprintPool :
        /\ Len(calls) < MaxCalls
        /\ certBlocklist' = BlocklistFingerprint(certBlocklist, f)
        /\ calls' = Append(calls, [op |-> "BlocklistFingerprint", f |-> f])
        /\ arg' = [op |-> "BlocklistFingerprint", c |-> Unmarshalable, t |-> now, f |-> f]
        /\ ret' = [op |-> "BlocklistFingerprint", ok |-> TRUE, err |-> NoErr]
        /\ UNCHANGED <<CAs, now, loadVars, ifaceVars>>

ResetCertBlocklistCall ==
    /\ Len(calls) < MaxCalls
    /\ certBlocklist' = ResetCertBlocklist(certBlocklist)
    /\ calls' = Append(calls, [op |-> "ResetCertBlocklist", f |-> <<>>])
    /\ arg' = [op |-> "ResetCertBlocklist", c |-> Unmarshalable, t |-> now, f |-> <<>>]
    /\ ret' = [op |-> "ResetCertBlocklist", ok |-> TRUE, err |-> NoErr]
    /\ UNCHANGED <<CAs, now, loadVars, ifaceVars>>

IsBlocklistedCall ==
    \E c \in ApiCerts :
        /\ arg' = [op |-> "IsBlocklisted", c |-> c, t |-> now, f |-> <<>>]
        /\ ret' = [op |-> "IsBlocklisted", ok |-> IsBlocklisted(thePool, c), err |-> NoErr]
        /\ UNCHANGED <<CAs, certBlocklist, calls, now, loadVars, ifaceVars>>

\* c.Verify(time.Now(), caPool)
VerifyCall ==
    \E c \in ApiCerts :
        LET r == Verify(c, now, thePool)
        IN  /\ arg' = [op |-> "Verify", c |-> c, t |-> now, f |-> <<>>]
            /\ ret' = [op |-> "Verify", ok |-> r.ok, err |-> r.err]
            /\ UNCHANGED <<CAs, certBlocklist, calls, now, loadVars, ifaceVars>>

Next ==
    \/ AddCACertificateCall
    \/ BlocklistFingerprintCall
    \/ ResetCertBlocklistCall
    \/ IsBlocklistedCall
    \/ VerifyCall

Spec == Init /\ [][Next]_vars

----------------------------------------------------------------------------
(* SpecLoad: NewCAPoolFromBytes on a bundle drawn in Init, one iteration   *)
(* of its loop per step.  CAs is pool.CAs; arg.f keeps the input.          *)

\* an expired CA (valid at 0 only), a certificate that is no CA, and a CA
\* certificate signed with another key
CaOld == NewCert("expired", <<>>, <<>>, <<>>, 0, 0, "kOld", TRUE, <<>>, "kOld")
NotSelfSigned == NewCert("forged ca", <<>>, <<>>, <<>>, 1, 2, "kForged", TRUE, <<>>, "kStranger")

PemItems ==
    { Space, Text,
      Block(CertBanner, TRUE, CaOpen),
      Block(CertBanner, TRUE, CaLim),
      Block(CertBanner, TRUE, CaOld),
      Block(CertBanner, TRUE, Issue(CaOpen, <<>>, <<>>, <<>>, 1, 2)),
      Block(CertBanner, TRUE, NotSelfSigned),
      Block(CertBanner, FALSE, Unmarshalable),
      Block(CertBannerV2, FALSE, Unmarshalable),
      Block("NOT A NEBULA CERTIFICATE", TRUE, CaOpen) }

Bundles == SeqsUpTo(PemItems, MaxBlocks)

InitLoad ==
    /\ caPEMs \in Bundles
    /\ now \in Times
    /\ arg = [op |-> "NewCAPoolFromBytes", c |-> Unmarshalable, t |-> now, f |-> caPEMs]
    /\ CAs = NewCAPool.CAs
    /\ certBlocklist = NewCAPool.certBlocklist
    /\ calls = <<>>
    /\ warnings = <<>>
    /\ good = 0
    /\ ret = NoRet
    /\ pc = "loop"
    /\ IfaceIdle

\* the errors of AddCACertificate that NewCAPoolFromBytes keeps as warnings
IsWarningExpiredOnly(err) == ErrorsIs(err, ErrExpired)
IsWarningAnyError(err) == err # NoErr
IsWarning(err) ==
    ErrorsIs(err, ErrExpired) \/ ErrorsIs(err, ErrInvalidPEMCertificateUnsupported)

\* what NewCAPoolFromBytes returns once the loop has ended with g good
\* certificates: (pool or nil, err)
AfterLoopAlwaysPool(g) == [op |-> "NewCAPoolFromBytes", ok |-> TRUE, err |-> NoErr]
AfterLoop(g) ==
    IF g = 0
    THEN [op |-> "NewCAPoolFromBytes", ok |-> FALSE, err |-> ErrNoValidCA]
    ELSE [op |-> "NewCAPoolFromBytes", ok |-> TRUE, err |-> NoErr]

\* one pass through the body of the for loop: AddCACertificate, the sorting
\* of its error, and the test that ends the loop
LoopIteration ==
    /\ pc = "loop"
    /\ LET a == AddCACertificate(CAs, caPEMs, now)
           warn == IsWarning(a.err)
           atEnd == Len(a.rest) = 0 \/ IsBlank(a.rest)
       IN  /\ CAs' = a.CAs
           /\ caPEMs' = a.rest
           /\ warnings' = IF warn THEN Append(warnings, a.err) ELSE warnings
           /\ good' = IF a.err = NoErr THEN good + 1 ELSE good
           /\ IF ~warn /\ a.err # NoErr
              THEN /\ pc' = "done"
                   /\ ret' = [op |-> "NewCAPoolFromBytes", ok |-> FALSE, err |-> a.err]
              ELSE /\ pc' = IF atEnd THEN "after" ELSE "loop"
                   /\ ret' = ret
    /\ UNCHANGED <<certBlocklist, calls, arg, now, ifaceVars>>

\* the statements after the loop
LoopExit ==
    /\ pc = "after"
    /\ pc' = "done"
    /\ ret' = AfterLoop(good)
    /\ UNCHANGED <<CAs, certBlocklist, calls, arg, caPEMs, warnings, good, now, ifaceVars>>

NextLoad == LoopIteration \/ LoopExit

SpecLoad == InitLoad /\ [][NextLoad]_vars

----------------------------------------------------------------------------
(* Properties of Verify, stated on the call SpecVerify makes.              *)

Verified == ret.op = "Verify"

\* the certificate and the instant of the call
vc == arg.c
vt == arg.t

\* the signing CA is in the pool
HasSigner == vc.Issuer # <<>> /\ vc.Issuer \in DOMAIN CAs
Signer == CAs[vc.Issuer]

NotBlocked == Sha256Sum(vc) \notin certBlocklist

InWindow(c, t) == c.NotBefore <= t /\ t <= c.NotAfter

RECURSIVE Pow2(_)
Pow2(n) == IF n = 0 THEN 1 ELSE 2 * Pow2(n - 1)

\* the first len bits of the addresses a and b agree
SamePrefix(a, b, len) ==
    /\ \A i \in 1..(len \div 8) : a[i] = b[i]
    /\ (len % 8 # 0) =>
          LET i == (len \div 8) + 1
              shift == Pow2(8 - (len % 8))
          IN  a[i] \div shift = b[i] \div shift

\* the address of n lies in the network ca and n's mask is at least as long
NetWithin(n, ca) ==
    /\ SamePrefix(n.IP, ca.IP, MaskSize(ca.Mask))
    /\ MaskSize(n.Mask) >= MaskSize(ca.Mask)

Contained(n, caNets) == \E i \in 1..Len(caNets) : NetWithin(n, caNets[i])

AllContained(nets, caNets) == \A i \in 1..Len(nets) : Contained(nets[i], caNets)

\* the first entry of nets, in order, that no CA network contains
FirstOutside(nets, caNets) ==
    nets[CHOOSE i \in 1..Len(nets) :
            /\ ~Contained(nets[i], caNets)
            /\ \A j \in 1..(i - 1) : Contained(nets[j], caNets)]

CidrForm(n) == <<n.IP, "/", MaskSize(n.Mask)>>

GroupsAllowed == Range(Signer.Groups) = {} \/ Range(vc.Groups) \subseteq Range(Signer.Groups)
IpsAllowed == Len(Signer.Ips) = 0 \/ AllContained(vc.Ips, Signer.Ips)
SubnetsAllowed == Len(Signer.Subnets) = 0 \/ AllContained(vc.Subnets, Signer.Subnets)

\* the call gets as far as the constraints of the root: the certificate is
\* not blocklisted, its signer is in the pool, both are inside their windows
\* at vt, the signature is the signer's and the certificate's window lies
\* within the signer's
ReachesConstraints ==
    /\ NotBlocked
    /\ HasSigner
    /\ InWindow(Signer, vt)
    /\ InWindow(vc, vt)
    /\ vc.SignedBy = Signer.PublicKey
    /\ Signer.NotBefore <= vc.NotBefore
    /\ vc.NotAfter <= Signer.NotAfter

Fails(msg) == ret.ok = FALSE /\ ret.err.msg = msg

\* C3: Verify at a time outside the signing CA's validity window returns
\* (false, "root certificate is expired"), also when the certificate itself
\* is expired at that time: the root's expiry is reported, not the
\* certificate's.  (The certificate is not blocklisted and its signer is in
\* the pool, so that the expiry checks are reached.)
C3_RootExpired ==
    (Verified /\ NotBlocked /\ HasSigner /\ ~InWindow(Signer, vt))
        => (Fails("root certificate is expired") /\ ret.err = ErrRootExpired)

C3_Witness ==
    /\ Verified /\ NotBlocked /\ HasSigner
    /\ ~InWindow(Signer, vt) /\ ~InWindow(vc, vt)
    /\ ret.err = ErrRootExpired

\* C4: Expired(t) is true for every t strictly before NotBefore and every t
\* strictly after NotAfter and false inside the window; Verify at a time
\* when the CA is valid and the certificate is outside its own window
\* returns (false, "certificate is expired").
C4_Expired ==
    /\ (vt < vc.NotBefore \/ vt > vc.NotAfter) => Expired(vc, vt)
    /\ (vc.NotBefore <= vt /\ vt <= vc.NotAfter) => ~Expired(vc, vt)
    /\ (Verified /\ NotBlocked /\ HasSigner /\ InWindow(Signer, vt) /\ ~InWindow(vc, vt))
          => (Fails("certificate is expired") /\ ret.err = ErrExpired)

C4_Witness ==
    /\ Verified /\ NotBlocked /\ HasSigner
    /\ InWindow(Signer, vt) /\ vt > vc.NotAfter
    /\ ret.err = ErrExpired

\* C5: when the signing CA lists ips (subnets), Verify succeeds only if every
\* ip (subnet) of the certificate is contained in some CA entry: the address
\* lies in the CA network and the certificate's mask is at least as long.
\* Otherwise Verify returns false, and when the call reaches that check the
\* error names, in CIDR form, the first offending entry in the certificate's
\* order, wherever it stands in the list.
C5_NetsWithinCA ==
    (Verified /\ HasSigner) =>
        /\ (Len(Signer.Ips) > 0 /\ ret.ok) => AllContained(vc.Ips, Signer.Ips)
        /\ (Len(Signer.Subnets) > 0 /\ ret.ok) => AllContained(vc.Subnets, Signer.Subnets)
        /\ (ReachesConstraints /\ GroupsAllowed /\ ~IpsAllowed) =>
              /\ Fails("certificate contained an ip assignment outside the limitations of the signing ca: ")
              /\ ret.err.what = CidrForm(FirstOutside(vc.Ips, Signer.Ips))
        /\ (ReachesConstraints /\ GroupsAllowed /\ IpsAllowed /\ ~SubnetsAllowed) =>
              /\ Fails("certificate contained a subnet assignment outside the limitations of the signing ca: ")
              /\ ret.err.what = CidrForm(FirstOutside(vc.Subnets, Signer.Subnets))

\* the offending entry stands second, after a contained one
C5_Witness ==
    /\ Verified /\ ReachesConstraints /\ GroupsAllowed
    /\ Len(Signer.Ips) > 0 /\ Len(vc.Ips) >= 2
    /\ Contained(vc.Ips[1], Signer.Ips) /\ ~Contained(vc.Ips[2], Signer.Ips)
    /\ ret.ok = FALSE /\ ret.err.what = CidrForm(vc.Ips[2])

\* C6: when the signing CA lists groups, Verify succeeds only if every group
\* of the certificate is one of the CA's; a certificate carrying a group
\* absent from the CA fails with "certificate contained a group not present
\* on the signing ca: <group>", and a certificate whose groups are a strict
\* subset of the CA's verifies.
C6_GroupsWithinCA ==
    (Verified /\ HasSigner /\ Range(Signer.Groups) # {}) =>
        /\ ret.ok => Range(vc.Groups) \subseteq Range(Signer.Groups)
        /\ (ReachesConstraints /\ ~GroupsAllowed) =>
              /\ Fails("certificate contained a group not present on the signing ca: ")
              /\ Len(ret.err.what) = 1
              /\ ret.err.what[1] \in Range(vc.Groups) \ Range(Signer.Groups)
        /\ (/\ ReachesConstraints /\ IpsAllowed /\ SubnetsAllowed
            /\ Range(vc.Groups) \subseteq Range(Signer.Groups)
            /\ Range(vc.Groups) # Range(Signer.Groups))
              => (ret.ok /\ ret.err = NoErr)

C6_Witness ==
    /\ Verified /\ ReachesConstraints /\ Range(Signer.Groups) # {}
    /\ vc.Groups = <<"test1", "bad">>
    /\ ret.ok = FALSE /\ ret.err.what = <<"bad">>

\* C7: a CA whose ips, subnets and groups are all empty restricts none of
\* them: a certificate it signed that carries ips, subnets and groups
\* verifies (true, nil) while it and its CA are unexpired, it is not
\* blocklisted and its window lies within the CA's.
C7_OpenCA ==
    (/\ Verified /\ ReachesConstraints
     /\ Signer.Ips = <<>> /\ Signer.Subnets = <<>> /\ Signer.Groups = <<>>)
        => (ret.ok /\ ret.err = NoErr)

C7_Witness ==
    /\ Verified /\ ReachesConstraints
    /\ Signer.Ips = <<>> /\ Signer.Subnets = <<>> /\ Signer.Groups = <<>>
    /\ vc.Ips # <<>> /\ vc.Subnets # <<>> /\ vc.Groups # <<>>
    /\ ret.ok /\ ret.err = NoErr

----------------------------------------------------------------------------
(* Properties of the blocklist, stated on the calls Spec makes.            *)

\* the fingerprints passed to BlocklistFingerprint after the most recent
\* ResetCertBlocklist of the history h
RECURSIVE BlockedSinceReset(_)
BlockedSinceReset(h) ==
    IF h = <<>> THEN {}
    ELSE LET last == h[Len(h)]
             before == BlockedSinceReset(SubSeq(h, 1, Len(h) - 1))
         IN  IF last.op = "ResetCertBlocklist" THEN {} ELSE before \cup {last.f}

\* but for the blocklist, nothing stands against the certificate of the call
OtherwiseValid ==
    /\ HasSigner
    /\ InWindow(Signer, vt)
    /\ InWindow(vc, vt)
    /\ vc.SignedBy = Signer.PublicKey
    /\ Signer.NotBefore <= vc.NotBefore
    /\ vc.NotAfter <= Signer.NotAfter
    /\ GroupsAllowed /\ IpsAllowed /\ SubnetsAllowed

\* C1: Verify of a certificate whose SHA-256 fingerprint has been added to the
\* pool's blocklist returns (false, "certificate is in the block list"), also
\* when the certificate is validly signed by a CA of the pool and inside its
\* validity window.
C1_BlocklistedFails ==
    (Verified /\ ~SumErr(vc) /\ Sha256Sum(vc) \in BlockedSinceReset(calls))
        => (Fails("certificate is in the block list") /\ ret.err = ErrBlockListed)

C1_Witness ==
    /\ Verified /\ ~SumErr(vc) /\ Sha256Sum(vc) \in BlockedSinceReset(calls)
    /\ OtherwiseValid
    /\ ret.ok = FALSE /\ ret.err = ErrBlockListed

\* C2: after any sequence of BlocklistFingerprint and ResetCertBlocklist calls,
\* IsBlocklisted(c) is true for a certificate c whose fingerprint can be
\* computed iff c's fingerprint was passed to BlocklistFingerprint after the
\* most recent ResetCertBlocklist; a certificate that was blocklisted and has
\* nothing else against it verifies again once ResetCertBlocklist has run.
C2_BlocklistHistory ==
    /\ (ret.op = "IsBlocklisted" /\ ~SumErr(vc))
          => (ret.ok <=> Sha256Sum(vc) \in BlockedSinceReset(calls))
    /\ (/\ Verified /\ ~SumErr(vc) /\ OtherwiseValid
        /\ calls # <<>> /\ calls[Len(calls)].op = "ResetCertBlocklist")
          => (ret.ok /\ ret.err = NoErr)

\* the certificate was blocklisted, the blocklist was reset, it verifies
C2_Witness ==
    /\ Verified /\ ~SumErr(vc) /\ OtherwiseValid
    /\ Len(calls) >= 2
    /\ calls[Len(calls)].op = "ResetCertBlocklist"
    /\ calls[Len(calls) - 1] = [op |-> "BlocklistFingerprint", f |-> Sha256Sum(vc)]
    /\ ret.ok /\ ret.err = NoErr

----------------------------------------------------------------------------
(* Properties of NewCAPoolFromBytes, stated on the run SpecLoad makes.     *)

input == arg.f

Returned == pc = "done" /\ ret.op = "NewCAPoolFromBytes"

\* a block that holds a self-signed CA certificate under the v1 banner
IsCABlock(item) ==
    /\ item.kind = "block" /\ item.banner = CertBanner /\ item.decodes
    /\ item.cert.IsCA /\ item.cert.SignedBy = item.cert.PublicKey

IsExpiredCA(item) == IsCABlock(item) /\ ~InWindow(item.cert, now)
IsFreshCA(item) == IsCABlock(item) /\ InWindow(item.cert, now)
IsV2Block(item) == item.kind = "block" /\ item.banner = "NEBULA CERTIFICATE V2"

ExpiredCAs == {i \in 1..Len(input) : IsExpiredCA(input[i])}
FreshCAs == {i \in 1..Len(input) : IsFreshCA(input[i])}
V2Blocks == {i \in 1..Len(input) : IsV2Block(input[i])}
CountWarnings(msg) == Cardinality({i \in 1..Len(warnings) : warnings[i].msg = msg})

\* nothing in the input fails with an error other than the two warnings:
\* every block is a CA certificate or a V2 block, there is a block, and no
\* text follows the last block
OnlyWarnings ==
    /\ \E i \in 1..Len(input) : input[i].kind = "block"
    /\ \A i \in 1..Len(input) :
          /\ input[i].kind = "block" => (IsCABlock(input[i]) \/ IsV2Block(input[i]))
          /\ input[i].kind = "text" => \E j \in (i + 1)..Len(input) : input[j].kind = "block"

\* C8: an expired CA is a warning, not an error: for an input that holds an
\* expired CA and an unexpired valid CA (and nothing that fails otherwise) the
\* call returns a pool and a nil error, the warnings hold exactly one
\* ErrExpired per expired CA, and each expired CA is in the pool's CAs under
\* its fingerprint.
C8_ExpiredIsWarning ==
    (/\ Returned /\ OnlyWarnings
     /\ ExpiredCAs # {}
     /\ FreshCAs # {})
        => /\ ret.ok /\ ret.err = NoErr
           /\ CountWarnings("certificate is expired") = Cardinality(ExpiredCAs)
           /\ \A i \in 1..Len(input) :
                 IsExpiredCA(input[i]) =>
                    /\ Sha256Sum(input[i].cert) \in DOMAIN CAs
                    /\ CAs[Sha256Sum(input[i].cert)] = input[i].cert

C8_Witness ==
    /\ Returned /\ OnlyWarnings
    /\ ExpiredCAs # {}
    /\ FreshCAs # {}
    /\ ret.ok /\ Len(warnings) = 1 /\ Cardinality(DOMAIN CAs) = 2

\* C9, as stated: whenever no certificate of the input was added without
\* error, the call returns a nil pool and "no valid CA certificates present".
C9_AsStated ==
    (Returned /\ good = 0) => (ret.ok = FALSE /\ ret.err = ErrNoValidCA)

\* C9, amended: whenever no certificate of the input was added without error
\* the call returns a nil pool; the error is "no valid CA certificates
\* present" when every block of the input gave only a warning (an expired CA,
\* an unsupported banner), the warnings then holding one entry per block, and
\* it is the error of the failing block otherwise.
C9_NoValidCA ==
    /\ (Returned /\ good = 0) => ret.ok = FALSE
    /\ (Returned /\ OnlyWarnings /\ FreshCAs = {})
          => /\ ret.ok = FALSE /\ ret.err = ErrNoValidCA
             /\ Len(warnings) = Cardinality(ExpiredCAs) + Cardinality(V2Blocks)
    /\ (Returned /\ good = 0 /\ ~OnlyWarnings)
          => (ret.err # NoErr /\ ret.err # ErrNoValidCA)

\* every certificate of the input is an expired CA
C9_Witness ==
    /\ Returned /\ Len(input) >= 2
    /\ \A i \in 1..Len(input) : IsExpiredCA(input[i])
    /\ ret.ok = FALSE /\ ret.err = ErrNoValidCA
    /\ Len(warnings) = Len(input)

\* C10: a block with the banner NEBULA CERTIFICATE V2 is tolerated and
\* ignored: it is reported as a warning that is ErrInvalidPEMCertificate-
\* Unsupported, it is not added to the pool, it does not fail the call, and
\* the valid v1 certificates of the bundle are loaded.
C10_V2Ignored ==
    (/\ Returned /\ OnlyWarnings
     /\ V2Blocks # {}
     /\ FreshCAs # {})
        => /\ ret.ok /\ ret.err = NoErr
           /\ CountWarnings("bytes contain an unsupported certificate format")
                 = Cardinality(V2Blocks)
           /\ DOMAIN CAs = {Sha256Sum(input[i].cert) : i \in {j \in 1..Len(input) : IsCABlock(input[j])}}

C10_Witness ==
    /\ Returned /\ OnlyWarnings
    /\ IsFreshCA(input[1]) /\ Len(input) >= 2 /\ IsV2Block(input[2])
    /\ ret.ok /\ Len(warnings) >= 1
    /\ DOMAIN CAs = {Sha256Sum(input[1].cert)}

----------------------------------------------------------------------------
(* Properties of AddCACertificate, stated on the calls the loop of         *)
(* NewCAPoolFromBytes makes (SpecLoad): the call of a step reads caPEMs    *)
(* and CAs and leaves CAs'.                                                *)

\* the first PEM block of the bytes still to be consumed, if there is one
HasBlock == \E i \in 1..Len(caPEMs) : caPEMs[i].kind = "block"
FirstBlock ==
    caPEMs[CHOOSE i \in 1..Len(caPEMs) :
               caPEMs[i].kind = "block" /\ \A j \in 1..(i - 1) : caPEMs[j].kind # "block"]

\* that block holds a certificate
Parses == HasBlock /\ FirstBlock.banner = CertBanner /\ FirstBlock.decodes
SelfSigned(c) == c.SignedBy = c.PublicKey

\* the error of the call a step of the loop makes: kept as a warning, or
\* returned
StepErr ==
    IF Len(warnings') > Len(warnings) THEN warnings'[Len(warnings')]
    ELSE IF pc' = "done" /\ pc = "loop" THEN ret'.err
    ELSE NoErr

\* C11: AddCACertificate changes CAs only for a block that parses to a
\* certificate with IsCA set and signed by its own key, and then stores the
\* certificate under its fingerprint; a certificate that is no CA is refused
\* with ErrNotCA and a CA that is not self-signed with ErrNotSelfSigned, and
\* whenever the call refuses (no certificate parsed, not a CA, not
\* self-signed) CAs is left as it was.
C11_AddOnlySelfSignedCA ==
    [][pc = "loop" =>
          /\ ~Parses => CAs' = CAs /\ StepErr # NoErr
          /\ Parses /\ ~FirstBlock.cert.IsCA =>
                 CAs' = CAs /\ StepErr = Err("certificate is not a CA", <<FirstBlock.cert.Name>>)
          /\ Parses /\ FirstBlock.cert.IsCA /\ ~SelfSigned(FirstBlock.cert) =>
                 CAs' = CAs
                 /\ StepErr = Err("certificate is not self-signed", <<FirstBlock.cert.Name>>)
          /\ Parses /\ FirstBlock.cert.IsCA /\ SelfSigned(FirstBlock.cert) =>
                 /\ Sha256Sum(FirstBlock.cert) \in DOMAIN CAs'
                 /\ CAs'[Sha256Sum(FirstBlock.cert)] = FirstBlock.cert
                 /\ \A k \in DOMAIN CAs : k \in DOMAIN CAs' /\
                        (k # Sha256Sum(FirstBlock.cert) => CAs'[k] = CAs[k])
                 /\ DOMAIN CAs' = DOMAIN CAs \cup {Sha256Sum(FirstBlock.cert)}
    ]_vars

\* a CA was stored by one call and a later call refused a certificate that
\* is no CA, leaving the stored CA alone
C11_Witness ==
    /\ pc = "done"
    /\ ErrorsIs(ret.err, ErrNotCA)
    /\ DOMAIN CAs = {Sha256Sum(CaOpen)}
    /\ CAs[Sha256Sum(CaOpen)] = CaOpen

----------------------------------------------------------------------------
(* SpecCodec: the functions of package cert that read and write keys and   *)
(* certificates, each applied once to an input drawn in Init.  arg is the  *)
(* call (op and its arguments), ret what it returned.                      *)

\* a key of n bytes, every byte v; the nil key is the empty sequence
KeyBytes(n, v) == [i \in 1..n |-> v]
NilKey == <<>>
NoCurve == "none"
NoParams == [memory |-> 0, parallelism |-> 0, iterations |-> 0]

CodecArg(op, f, c, key, pass, curve, params) ==
    [op |-> op, c |-> c, t |-> 0, f |-> f, key |-> key, pass |-> pass,
     curve |-> curve, params |-> params]

CodecRet(op, c, key, curve, rest, err) ==
    [op |-> op, ok |-> err = NoErr, err |-> err, c |-> c, key |-> key,
     curve |-> curve, rest |-> rest]

CodecIdle ==
    /\ CAs = NewCAPool.CAs
    /\ certBlocklist = NewCAPool.certBlocklist
    /\ calls = <<>>
    /\ caPEMs = <<>>
    /\ warnings = <<>>
    /\ good = 0
    /\ now = 0
    /\ IfaceIdle

codecOther == <<CAs, certBlocklist, calls, caPEMs, warnings, good, now, ifaceVars>>

\* the calls of UnmarshalNebulaCertificateFromPEM
CertPEMCalls ==
    {CodecArg("UnmarshalNebulaCertificateFromPEM", b, Unmarshalable, NilKey, "", NoCurve, NoParams) :
        b \in Bundles}

UnmarshalNebulaCertificateFromPEMCall ==
    /\ pc = "call"
    /\ arg.op = "UnmarshalNebulaCertificateFromPEM"
    /\ LET u == UnmarshalNebulaCertificateFromPEM(arg.f)
       IN  ret' = CodecRet(arg.op, u.c, NilKey, NoCurve, u.rest, u.err)
    /\ pc' = "done"
    /\ UNCHANGED <<arg, codecOther, ifaceVars>>

----------------------------------------------------------------------------
(* Keys in PEM.  A key block carries its banner and its body, the decoded  *)
(* bytes of the key.                                                       *)

X25519PrivateKeyBanner == "NEBULA X25519 PRIVATE KEY"
X25519PublicKeyBanner == "NEBULA X25519 PUBLIC KEY"
Ed25519PrivateKeyBanner == "NEBULA ED25519 PRIVATE KEY"
Ed25519PublicKeyBanner == "NEBULA ED25519 PUBLIC KEY"
EncryptedEd25519PrivateKeyBanner == "NEBULA ED25519 ENCRYPTED PRIVATE KEY"
P256PrivateKeyBanner == "NEBULA P256 PRIVATE KEY"
P256PublicKeyBanner == "NEBULA P256 PUBLIC KEY"
ECDSAP256PrivateKeyBanner == "NEBULA ECDSA P256 PRIVATE KEY"

Curve_CURVE25519 == "CURVE25519"
Curve_P256 == "P256"

KeyBlock(banner, body) ==
    [kind |-> "block", banner |-> banner, decodes |-> FALSE, cert |-> Unmarshalable,
     body |-> body]

\* "key was not <n> bytes, is invalid <curve> <what>"
ErrKeyLength(n, curve, what) ==
    Err("key was not the expected number of bytes", <<n, curve, what>>)
ErrSigningKeyBanner ==
    Err("bytes did not contain a proper nebula Ed25519/ECDSA private key banner", <<>>)
ErrPrivateKeyBanner == Err("bytes did not contain a proper nebula private key banner", <<>>)
ErrPublicKeyBanner == Err("bytes did not contain a proper nebula public key banner", <<>>)
ErrEd25519PublicKeyBanner ==
    Err("bytes did not contain a proper nebula Ed25519 public key banner", <<>>)

KeyResult(key, rest, curve, err) == [key |-> key, rest |-> rest, curve |-> curve, err |-> err]

\* UnmarshalSigningPrivateKey: (key, rest, curve, err)
UnmarshalSigningPrivateKeyAnyLength(b) ==
    LET p == PemDecode(b)
        k == p.block
    IN  IF ~p.found THEN KeyResult(NilKey, p.rest, NoCurve, ErrInvalidPEMBlock)
        ELSE IF k.banner = Ed25519PrivateKeyBanner
             THEN KeyResult(k.body, p.rest, Curve_CURVE25519, NoErr)
        ELSE IF k.banner = ECDSAP256PrivateKeyBanner
             THEN KeyResult(k.body, p.rest, Curve_P256, NoErr)
        ELSE KeyResult(NilKey, p.rest, NoCurve, ErrSigningKeyBanner)
UnmarshalSigningPrivateKey(b) ==
    LET p == PemDecode(b)
        k == p.block
    IN  IF ~p.found THEN KeyResult(NilKey, p.rest, NoCurve, ErrInvalidPEMBlock)
        ELSE IF k.banner = Ed25519PrivateKeyBanner
             THEN IF Len(k.body) # 64
                  THEN KeyResult(NilKey, p.rest, NoCurve,
                                 ErrKeyLength("64", "Ed25519", "private key"))
                  ELSE KeyResult(k.body, p.rest, Curve_CURVE25519, NoErr)
        ELSE IF k.banner = ECDSAP256PrivateKeyBanner
             THEN IF Len(k.body) # 32
                  THEN KeyResult(NilKey, p.rest, NoCurve,
                                 ErrKeyLength("32", "ECDSA P256", "private key"))
                  ELSE KeyResult(k.body, p.rest, Curve_P256, NoErr)
        ELSE KeyResult(NilKey, p.rest, NoCurve, ErrSigningKeyBanner)

\* UnmarshalPrivateKey: (key, rest, curve, err)
UnmarshalPrivateKey(b) ==
    LET p == PemDecode(b)
        k == p.block
    IN  IF ~p.found THEN KeyResult(NilKey, p.rest, NoCurve, ErrInvalidPEMBlock)
        ELSE IF k.banner \notin {X25519PrivateKeyBanner, P256PrivateKeyBanner}
             THEN KeyResult(NilKey, p.rest, NoCurve, ErrPrivateKeyBanner)
        ELSE LET curve == IF k.banner = X25519PrivateKeyBanner
                          THEN Curve_CURVE25519 ELSE Curve_P256
             IN  IF Len(k.body) # 32
                 THEN KeyResult(NilKey, p.rest, NoCurve,
                                ErrKeyLength("32", curve, "private key"))
                 ELSE KeyResult(k.body, p.rest, curve, NoErr)

\* UnmarshalPublicKey: (key, rest, curve, err)
UnmarshalPublicKey(b) ==
    LET p == PemDecode(b)
        k == p.block
    IN  IF ~p.found THEN KeyResult(NilKey, p.rest, NoCurve, ErrInvalidPEMBlock)
        ELSE IF k.banner \notin {X25519PublicKeyBanner, P256PublicKeyBanner}
             THEN KeyResult(NilKey, p.rest, NoCurve, ErrPublicKeyBanner)
        ELSE LET curve == IF k.banner = X25519PublicKeyBanner
                          THEN Curve_CURVE25519 ELSE Curve_P256
                 expectedLen == IF k.banner = X25519PublicKeyBanner THEN 32 ELSE 65
             IN  IF Len(k.body) # expectedLen
                 THEN KeyResult(NilKey, p.rest, NoCurve,
                                ErrKeyLength(IF expectedLen = 32 THEN "32" ELSE "65",
                                             curve, "public key"))
                 ELSE KeyResult(k.body, p.rest, curve, NoErr)

\* UnmarshalEd25519PublicKey: (key, rest, err); it returns no curve
UnmarshalEd25519PublicKey(b) ==
    LET p == PemDecode(b)
        k == p.block
    IN  IF ~p.found THEN KeyResult(NilKey, p.rest, NoCurve, ErrInvalidPEMBlock)
        ELSE IF k.banner # Ed25519PublicKeyBanner
             THEN KeyResult(NilKey, p.rest, NoCurve, ErrEd25519PublicKeyBanner)
        ELSE IF Len(k.body) # 32
             THEN KeyResult(NilKey, p.rest, NoCurve,
                            ErrKeyLength("32", "ed25519", "public key"))
        ELSE KeyResult(k.body, p.rest, NoCurve, NoErr)

\* the key bundles handed to the four functions: blocks of every key banner
\* and of a banner that names no key, with bodies of the lengths a key can
\* have and one byte short of them
MaxKeyBlocks == 2

KeyBanners ==
    { Ed25519PrivateKeyBanner, ECDSAP256PrivateKeyBanner, X25519PrivateKeyBanner,
      P256PrivateKeyBanner, X25519PublicKeyBanner, P256PublicKeyBanner,
      Ed25519PublicKeyBanner, "NOT A NEBULA PRIVATE KEY" }

KeyLengths == {31, 32, 63, 64, 65}

KeyItems == {Space, Text} \cup {KeyBlock(bn, KeyBytes(n, 0)) : bn \in KeyBanners, n \in KeyLengths}

KeyBundles == SeqsUpTo(KeyItems, MaxKeyBlocks)

KeyFunctions ==
    { "UnmarshalSigningPrivateKey", "UnmarshalPrivateKey", "UnmarshalPublicKey",
      "UnmarshalEd25519PublicKey" }

KeyCalls ==
    {CodecArg(op, b, Unmarshalable, NilKey, "", NoCurve, NoParams) :
        op \in KeyFunctions, b \in KeyBundles}

UnmarshalKeyCall(op, r) ==
    /\ pc = "call"
    /\ arg.op = op
    /\ ret' = CodecRet(op, Unmarshalable, r.key, r.curve, r.rest, r.err)
    /\ pc' = "done"
    /\ UNCHANGED <<arg, codecOther, ifaceVars>>

UnmarshalSigningPrivateKeyCall ==
    UnmarshalKeyCall("UnmarshalSigningPrivateKey", UnmarshalSigningPrivateKey(arg.f))

UnmarshalPrivateKeyCall ==
    UnmarshalKeyCall("UnmarshalPrivateKey", UnmarshalPrivateKey(arg.f))

UnmarshalPublicKeyCall ==
    UnmarshalKeyCall("UnmarshalPublicKey", UnmarshalPublicKey(arg.f))

UnmarshalEd25519PublicKeyCall ==
    UnmarshalKeyCall("UnmarshalEd25519PublicKey", UnmarshalEd25519PublicKey(arg.f))
----------------------------------------------------------------------------
(* Encrypted signing keys.  The key is sealed with AES-256-GCM under a key *)
(* derived by Argon2id from the passphrase and the parameters; the         *)
(* parameters travel in the PEM block next to the ciphertext.              *)

EncryptedECDSAP256PrivateKeyBanner == "NEBULA ECDSA P256 ENCRYPTED PRIVATE KEY"

ErrWrongPassphrase == Err("invalid passphrase or corrupt private key", <<>>)
ErrEncryptedKeyBanner ==
    Err("bytes did not contain a proper nebula encrypted Ed25519/ECDSA private key banner", <<>>)
ErrInvalidCurve == Err("invalid curve", <<>>)

NewArgon2Parameters(memory, parallelism, iterations) ==
    [memory |-> memory, parallelism |-> parallelism, iterations |-> iterations]

\* Argon2id: one derived key per passphrase and parameters
aes256DeriveKey(passphrase, params) == <<passphrase, params>>

\* AES-256-GCM: the ciphertext opens only under the key that sealed it
aes256Encrypt(passphrase, params, plaintext) ==
    [sealedWith |-> aes256DeriveKey(passphrase, params), plaintext |-> plaintext]

aes256DecryptAnyKey(passphrase, params, ciphertext) ==
    [plaintext |-> ciphertext.plaintext, err |-> NoErr]
aes256Decrypt(passphrase, params, ciphertext) ==
    IF aes256DeriveKey(passphrase, params) = ciphertext.sealedWith
    THEN [plaintext |-> ciphertext.plaintext, err |-> NoErr]
    ELSE [plaintext |-> NilKey, err |-> ErrWrongPassphrase]

\* the body of an encrypted key block: metadata and ciphertext
EncryptedData(params, ciphertext) ==
    [EncryptionAlgorithm |-> "AES-256-GCM", Argon2Parameters |-> params,
     Ciphertext |-> ciphertext]

\* EncryptAndMarshalSigningPrivateKey: (PEM bytes, err)
EncryptAndMarshalSigningPrivateKey(curve, b, passphrase, kdfParams) ==
    LET body == EncryptedData(kdfParams, aes256Encrypt(passphrase, kdfParams, b))
    IN  IF curve = Curve_CURVE25519
        THEN [out |-> <<KeyBlock(EncryptedEd25519PrivateKeyBanner, body)>>, err |-> NoErr]
        ELSE IF curve = Curve_P256
        THEN [out |-> <<KeyBlock(EncryptedECDSAP256PrivateKeyBanner, body)>>, err |-> NoErr]
        ELSE [out |-> <<>>, err |-> ErrInvalidCurve]

\* DecryptAndUnmarshalSigningPrivateKey: (curve, key, rest, err)
DecryptAndUnmarshalSigningPrivateKey(passphrase, b) ==
    LET p == PemDecode(b)
        k == p.block
    IN  IF ~p.found THEN KeyResult(NilKey, p.rest, NoCurve, ErrInvalidPEMBlock)
        ELSE IF k.banner \notin {EncryptedEd25519PrivateKeyBanner,
                                 EncryptedECDSAP256PrivateKeyBanner}
             THEN KeyResult(NilKey, p.rest, NoCurve, ErrEncryptedKeyBanner)
        ELSE LET curve == IF k.banner = EncryptedEd25519PrivateKeyBanner
                          THEN Curve_CURVE25519 ELSE Curve_P256
                 d == aes256Decrypt(passphrase, k.body.Argon2Parameters, k.body.Ciphertext)
             IN  IF d.err # NoErr THEN KeyResult(NilKey, p.rest, curve, d.err)
                 ELSE IF curve = Curve_CURVE25519 /\ Len(d.plaintext) # 64
                      THEN KeyResult(NilKey, p.rest, curve,
                                     ErrKeyLength("64", "ed25519", "private key"))
                 ELSE IF curve = Curve_P256 /\ Len(d.plaintext) # 32
                      THEN KeyResult(NilKey, p.rest, curve,
                                     ErrKeyLength("32", "ECDSA P256", "private key"))
                 ELSE KeyResult(d.plaintext, p.rest, curve, NoErr)

\* the keys, passphrases and parameters of the round trip: keys of the
\* length of each curve with different contents, and keys too short
Passphrases == {"passphrase", "DO NOT USE THIS KEY", "invalid passphrase"}

Argon2Pool == {NewArgon2Parameters(64 * 1024, 4, 3), NewArgon2Parameters(2 * 1024, 1, 1)}

SigningKeys == {KeyBytes(n, v) : n \in {32, 63, 64}, v \in {0, 65}}

EncryptCalls ==
    {CodecArg("EncryptAndMarshalSigningPrivateKey", <<>>, Unmarshalable, k, p, curve, params) :
        k \in SigningKeys, p \in Passphrases, curve \in {Curve_CURVE25519, Curve_P256, "X448"},
        params \in Argon2Pool}

EncryptAndMarshalSigningPrivateKeyCall ==
    /\ pc = "call"
    /\ arg.op = "EncryptAndMarshalSigningPrivateKey"
    /\ LET e == EncryptAndMarshalSigningPrivateKey(arg.curve, arg.key, arg.pass, arg.params)
       IN  /\ calls' = Append(calls, [op |-> arg.op, arg |-> arg, out |-> e.out, err |-> e.err])
           /\ ret' = CodecRet(arg.op, Unmarshalable, NilKey, NoCurve, <<>>, e.err)
           /\ pc' = IF e.err = NoErr THEN "encrypted" ELSE "done"
    /\ UNCHANGED <<arg, CAs, certBlocklist, caPEMs, warnings, good, now, ifaceVars>>

\* the bytes EncryptAndMarshalSigningPrivateKey returned are read back under
\* some passphrase
DecryptAndUnmarshalSigningPrivateKeyCall ==
    /\ pc = "encrypted"
    /\ \E p \in Passphrases :
           LET d == DecryptAndUnmarshalSigningPrivateKey(p, calls[1].out)
           IN  /\ arg' = CodecArg("DecryptAndUnmarshalSigningPrivateKey", calls[1].out,
                                  Unmarshalable, NilKey, p, NoCurve, NoParams)
               /\ ret' = CodecRet("DecryptAndUnmarshalSigningPrivateKey", Unmarshalable,
                                  d.key, d.curve, d.rest, d.err)
    /\ pc' = "done"
    /\ UNCHANGED codecOther
----------------------------------------------------------------------------
(* The certificate on the wire.  Marshal writes the protobuf message       *)
(* RawNebulaCertificate: the details with every network as two 32 bit      *)
(* numbers (address, mask), the two instants as whole seconds since the    *)
(* epoch, and the signature.  A time.Time is (sec, nsec); a 32 bit number  *)
(* is written here as its two 16 bit halves.                               *)

Time(sec, nsec) == [sec |-> sec, nsec |-> nsec]

\* time.Time.Unix and time.Unix(sec, 0)
Unix(t) == t.sec
TimeUnix(sec) == Time(sec, 0)

\* ip2int and int2ip
ip2int(ip) == <<ip[1] * 256 + ip[2], ip[3] * 256 + ip[4]>>
int2ipLittleEndian(n) == <<n[2] % 256, n[2] \div 256, n[1] % 256, n[1] \div 256>>
int2ip(n) == <<n[1] \div 256, n[1] % 256, n[2] \div 256, n[2] % 256>>

\* the networks of a certificate as the flat list address, mask, address,
\* mask, ...
RawNets(nets) ==
    [i \in 1..(2 * Len(nets)) |->
        IF i % 2 = 1 THEN ip2int(nets[(i + 1) \div 2].IP) ELSE ip2int(nets[i \div 2].Mask)]

\* and back
NetsOfRaw(raw) ==
    [i \in 1..(Len(raw) \div 2) |-> Net(int2ip(raw[2 * i - 1]), int2ip(raw[2 * i]))]

RawDetails(name, ips, subnets, groups, nb, na, pub, isCA, issuer) ==
    [Name |-> name, Ips |-> ips, Subnets |-> subnets, Groups |-> groups,
     NotBefore |-> nb, NotAfter |-> na, PublicKey |-> pub, IsCA |-> isCA,
     Issuer |-> issuer]

NoDetails == RawDetails("", <<>>, <<>>, <<>>, 0, 0, <<>>, FALSE, <<>>)

\* the bytes of a message: whether they decode as protobuf at all, whether
\* the message has its Details, the details and the signature
RawNebulaCertificate(decodes, hasDetails, details, signature) ==
    [decodes |-> decodes, hasDetails |-> hasDetails, Details |-> details,
     Signature |-> signature]

\* NebulaCertificate.getRawDetails
getRawDetails(c) ==
    RawDetails(c.Name, RawNets(c.Ips), RawNets(c.Subnets), c.Groups,
               Unix(c.NotBefore), Unix(c.NotAfter), c.PublicKey, c.IsCA, c.Issuer)

\* NebulaCertificate.Marshal: the bytes, one message
Marshal(c) == <<RawNebulaCertificate(TRUE, TRUE, getRawDetails(c), c.SignedBy)>>

ErrNilByteArray == Err("nil byte array", <<>>)
ErrProto == Err("proto: cannot parse invalid wire-format data", <<>>)
ErrDetailsNil == Err("encoded Details was nil", <<>>)
ErrIpsNotInPairs == Err("encoded IPs should be in pairs, an odd number was found", <<>>)
ErrSubnetsNotInPairs ==
    Err("encoded Subnets should be in pairs, an odd number was found", <<>>)
ErrPublicKeyShort == Err("Public key was fewer than 32 bytes", <<>>)

CertResult(c, err, panics) == [c |-> c, err |-> err, panics |-> panics]

\* UnmarshalNebulaCertificate: (certificate, err); panics is TRUE when the
\* call does not return
UnmarshalNebulaCertificateNoNilCheck(b) ==
    IF Len(b) = 0 THEN CertResult(Unmarshalable, ErrNilByteArray, FALSE)
    ELSE LET rc == b[1]
             d == rc.Details
         IN  IF ~rc.decodes THEN CertResult(Unmarshalable, ErrProto, FALSE)
             ELSE IF ~rc.hasDetails THEN CertResult(Unmarshalable, NoErr, TRUE)
             ELSE IF Len(d.Ips) % 2 # 0
                  THEN CertResult(Unmarshalable, ErrIpsNotInPairs, FALSE)
             ELSE IF Len(d.Subnets) % 2 # 0
                  THEN CertResult(Unmarshalable, ErrSubnetsNotInPairs, FALSE)
             ELSE IF Len(d.PublicKey) < 32
                  THEN CertResult(Unmarshalable, ErrPublicKeyShort, FALSE)
             ELSE CertResult(NewCert(d.Name, NetsOfRaw(d.Ips), NetsOfRaw(d.Subnets),
                                     d.Groups, TimeUnix(d.NotBefore), TimeUnix(d.NotAfter),
                                     d.PublicKey, d.IsCA, d.Issuer, rc.Signature),
                             NoErr, FALSE)
UnmarshalNebulaCertificate(b) ==
    IF Len(b) = 0 THEN CertResult(Unmarshalable, ErrNilByteArray, FALSE)
    ELSE LET rc == b[1]
             d == rc.Details
         IN  IF ~rc.decodes THEN CertResult(Unmarshalable, ErrProto, FALSE)
             ELSE IF ~rc.hasDetails THEN CertResult(Unmarshalable, ErrDetailsNil, FALSE)
             ELSE IF Len(d.Ips) % 2 # 0
                  THEN CertResult(Unmarshalable, ErrIpsNotInPairs, FALSE)
             ELSE IF Len(d.Subnets) % 2 # 0
                  THEN CertResult(Unmarshalable, ErrSubnetsNotInPairs, FALSE)
             ELSE IF Len(d.PublicKey) < 32
                  THEN CertResult(Unmarshalable, ErrPublicKeyShort, FALSE)
             ELSE CertResult(NewCert(d.Name, NetsOfRaw(d.Ips), NetsOfRaw(d.Subnets),
                                     d.Groups, TimeUnix(d.NotBefore), TimeUnix(d.NotAfter),
                                     d.PublicKey, d.IsCA, d.Issuer, rc.Signature),
                             NoErr, FALSE)

\* the certificates marshalled: networks of the marshalling tests, groups
\* in both orders, instants on and off the whole second, a public key of 32
\* bytes and one of 31
WireIps ==
    { <<>>,
      <<Net(<<10, 1, 1, 1>>, <<255, 255, 255, 0>>), Net(<<10, 1, 1, 2>>, <<255, 255, 0, 0>>)>> }

WireSubnets == { <<>>, <<Net(<<9, 1, 1, 1>>, <<255, 0, 255, 0>>)>> }

WireGroups ==
    { <<>>, <<"test-group1", "test-group2">>, <<"test-group2", "test-group1">> }

WireTimes == {Time(1, 0), Time(1, 500000000)}

WireCerts ==
    { NewCert("testing", ips, subnets, groups, nb, na, pub, isCA, <<"00ff">>, "signature") :
        ips \in WireIps, subnets \in WireSubnets, groups \in WireGroups,
        nb \in WireTimes, na \in WireTimes,
        pub \in {KeyBytes(32, 49), KeyBytes(31, 49)}, isCA \in BOOLEAN }

MarshalCalls ==
    {CodecArg("Marshal", <<>>, c, NilKey, "", NoCurve, NoParams) : c \in WireCerts}

\* bytes that are no marshalled certificate: none at all, bytes that are no
\* protobuf message, a message without Details, and messages whose Details
\* hold an odd number of ip or subnet entries
MalformedBytes ==
    { <<>>,
      <<RawNebulaCertificate(FALSE, FALSE, NoDetails, "")>>,
      <<RawNebulaCertificate(TRUE, FALSE, NoDetails, "")>>,
      <<RawNebulaCertificate(TRUE, FALSE, NoDetails, "signature")>>,
      <<RawNebulaCertificate(TRUE, TRUE,
            RawDetails("odd", <<ip2int(<<10, 1, 1, 1>>)>>, <<>>, <<>>, 1, 2,
                       KeyBytes(32, 49), FALSE, <<>>), "signature")>>,
      <<RawNebulaCertificate(TRUE, TRUE,
            RawDetails("odd", <<>>, <<ip2int(<<9, 1, 1, 1>>)>>, <<>>, 1, 2,
                       KeyBytes(32, 49), FALSE, <<>>), "signature")>> }

UnmarshalCalls ==
    {CodecArg("UnmarshalNebulaCertificate", b, Unmarshalable, NilKey, "", NoCurve, NoParams) :
        b \in MalformedBytes}

MarshalCall ==
    /\ pc = "call"
    /\ arg.op = "Marshal"
    /\ calls' = Append(calls, [op |-> arg.op, arg |-> arg, out |-> Marshal(arg.c), err |-> NoErr])
    /\ ret' = CodecRet(arg.op, Unmarshalable, NilKey, NoCurve, <<>>, NoErr)
    /\ pc' = "marshalled"
    /\ UNCHANGED <<arg, CAs, certBlocklist, caPEMs, warnings, good, now, ifaceVars>>

\* UnmarshalNebulaCertificate on the bytes Marshal returned, or on the
\* bytes of the call drawn in Init
UnmarshalNebulaCertificateCall ==
    /\ \/ pc = "marshalled" /\
          arg' = CodecArg("UnmarshalNebulaCertificate", calls[1].out, Unmarshalable,
                          NilKey, "", NoCurve, NoParams)
       \/ pc = "call" /\ arg.op = "UnmarshalNebulaCertificate" /\ arg' = arg
    /\ LET u == UnmarshalNebulaCertificate(arg'.f)
       IN  IF u.panics
           THEN pc' = "panicked" /\ ret' = ret
           ELSE /\ pc' = "done"
                /\ ret' = CodecRet("UnmarshalNebulaCertificate", u.c, NilKey, NoCurve,
                                   <<>>, u.err)
    /\ UNCHANGED codecOther
\* the calls SpecCodec makes
CodecCalls ==
    CertPEMCalls \cup KeyCalls \cup EncryptCalls \cup MarshalCalls \cup UnmarshalCalls

InitCodec ==
    /\ arg \in CodecCalls
    /\ ret = NoRet
    /\ pc = "call"
    /\ CodecIdle

NextCodec ==
    \/ UnmarshalNebulaCertificateFromPEMCall
    \/ UnmarshalSigningPrivateKeyCall
    \/ UnmarshalPrivateKeyCall
    \/ UnmarshalPublicKeyCall
    \/ UnmarshalEd25519PublicKeyCall
    \/ EncryptAndMarshalSigningPrivateKeyCall
    \/ DecryptAndUnmarshalSigningPrivateKeyCall
    \/ MarshalCall
    \/ UnmarshalNebulaCertificateCall

SpecCodec == InitCodec /\ [][NextCodec]_vars

----------------------------------------------------------------------------
(* Properties of the codec functions, stated on the call SpecCodec makes.  *)

CodecReturned(op) == pc = "done" /\ arg.op = op /\ ret.op = op

\* the place of the first PEM block in the input of the call, 0 if none
FirstBlockAt(b) ==
    IF \E i \in 1..Len(b) : b[i].kind = "block"
    THEN CHOOSE i \in 1..Len(b) :
             b[i].kind = "block" /\ \A j \in 1..(i - 1) : b[j].kind # "block"
    ELSE 0

AfterBlock(b) == SubSeq(b, FirstBlockAt(b) + 1, Len(b))

\* C12: UnmarshalNebulaCertificateFromPEM consumes the input up to the end
\* of its first PEM block and returns what follows: for a block that holds a
\* certificate, the certificate and the rest without error; for a block
\* whose banner is not a certificate banner, no certificate, the error
\* "bytes did not contain a proper nebula certificate banner" and the rest
\* after that block; for an input without a PEM block, the error "input did
\* not contain a valid PEM encoded block" and the input as it was.
C12_FirstBlockConsumed ==
    CodecReturned("UnmarshalNebulaCertificateFromPEM") =>
        LET b == arg.f
            i == FirstBlockAt(b)
        IN  /\ i = 0 =>
                /\ ret.c = Unmarshalable
                /\ ret.err = Err("input did not contain a valid PEM encoded block", <<>>)
                /\ ret.rest = b
            /\ i > 0 => ret.rest = AfterBlock(b)
            /\ i > 0 /\ b[i].banner = "NEBULA CERTIFICATE" /\ b[i].decodes =>
                /\ ret.err = NoErr
                /\ ret.c = b[i].cert
            /\ i > 0 /\ b[i].banner \notin {"NEBULA CERTIFICATE", "NEBULA CERTIFICATE V2"} =>
                /\ ret.c = Unmarshalable
                /\ ret.err = Err("bytes did not contain a proper nebula certificate banner", <<>>)

\* a good certificate was returned from behind a comment, with a block of
\* another banner left in the rest
C12_Witness ==
    /\ CodecReturned("UnmarshalNebulaCertificateFromPEM")
    /\ ret.err = NoErr
    /\ ret.c = CaOpen
    /\ FirstBlockAt(arg.f) = 2
    /\ Len(ret.rest) = 1
    /\ ret.rest[1].banner = "NOT A NEBULA CERTIFICATE"

\* the length a key must have under a banner, read by the function op;
\* 0 when op does not take the banner
BannerLength(op, banner) ==
    CASE op = "UnmarshalSigningPrivateKey" /\ banner = "NEBULA ED25519 PRIVATE KEY" -> 64
      [] op = "UnmarshalSigningPrivateKey" /\ banner = "NEBULA ECDSA P256 PRIVATE KEY" -> 32
      [] op = "UnmarshalPrivateKey" /\ banner = "NEBULA X25519 PRIVATE KEY" -> 32
      [] op = "UnmarshalPrivateKey" /\ banner = "NEBULA P256 PRIVATE KEY" -> 32
      [] op = "UnmarshalPublicKey" /\ banner = "NEBULA X25519 PUBLIC KEY" -> 32
      [] op = "UnmarshalPublicKey" /\ banner = "NEBULA P256 PUBLIC KEY" -> 65
      [] op = "UnmarshalEd25519PublicKey" /\ banner = "NEBULA ED25519 PUBLIC KEY" -> 32
      [] OTHER -> 0

\* the curve a banner stands for
BannerCurve(banner) ==
    IF banner \in {"NEBULA ECDSA P256 PRIVATE KEY", "NEBULA P256 PRIVATE KEY",
                   "NEBULA P256 PUBLIC KEY"}
    THEN "P256" ELSE "CURVE25519"

KeyReturned == pc = "done" /\ arg.op \in KeyFunctions /\ ret.op = arg.op

\* C13: each key unmarshal function takes the curve from the banner of the
\* first PEM block and returns the key of that block only when the body has
\* the length the banner asks for (Ed25519 signing private 64, ECDSA P256
\* signing private 32, X25519 private and public 32, P256 private 32, P256
\* public 65); with another length or a banner the function does not take
\* it returns a nil key and an error, and the rest still starts after the
\* block; an input without a PEM block comes back whole, with an error.
C13_KeyLengthByBanner ==
    KeyReturned =>
        LET b == arg.f
            i == FirstBlockAt(b)
        IN  /\ i = 0 => ret.key = NilKey /\ ret.err # NoErr /\ ret.rest = b
            /\ i > 0 => ret.rest = AfterBlock(b)
            /\ i > 0 /\ Len(b[i].body) = BannerLength(arg.op, b[i].banner) =>
                /\ ret.err = NoErr
                /\ ret.key = b[i].body
                /\ arg.op # "UnmarshalEd25519PublicKey" => ret.curve = BannerCurve(b[i].banner)
            /\ i > 0 /\ Len(b[i].body) # BannerLength(arg.op, b[i].banner) =>
                /\ ret.key = NilKey
                /\ ret.err # NoErr
            /\ ret.err = NoErr <=> ret.key # NilKey

\* an Ed25519 signing key that is one byte short is refused while the block
\* behind it, a P256 public key, is returned as the rest
C13_Witness ==
    /\ KeyReturned
    /\ arg.op = "UnmarshalSigningPrivateKey"
    /\ Len(arg.f) = 2
    /\ arg.f[1].kind = "block"
    /\ arg.f[1].banner = "NEBULA ED25519 PRIVATE KEY"
    /\ Len(arg.f[1].body) = 63
    /\ ret.key = NilKey
    /\ ret.err # NoErr
    /\ ret.rest = <<KeyBlock("NEBULA P256 PUBLIC KEY", KeyBytes(65, 0))>>

\* the encryption whose output the call read back
Encrypted == calls[1].arg

WellSized(curve, key) ==
    \/ curve = "CURVE25519" /\ Len(key) = 64
    \/ curve = "P256" /\ Len(key) = 32

RoundTripDone ==
    /\ CodecReturned("DecryptAndUnmarshalSigningPrivateKey")
    /\ Len(calls) = 1
    /\ calls[1].op = "EncryptAndMarshalSigningPrivateKey"

\* C14: what EncryptAndMarshalSigningPrivateKey wrote for a signing key (of
\* the length of its curve), a passphrase and Argon2 parameters is read back
\* by DecryptAndUnmarshalSigningPrivateKey under the same passphrase as the
\* same curve and the same key, with nothing left over and no error; under
\* another passphrase it gives a nil key and the error "invalid passphrase
\* or corrupt private key".
C14_EncryptedRoundTrip ==
    RoundTripDone =>
        /\ calls[1].err = NoErr
        /\ arg.pass = Encrypted.pass /\ WellSized(Encrypted.curve, Encrypted.key) =>
               /\ ret.err = NoErr
               /\ ret.curve = Encrypted.curve
               /\ ret.key = Encrypted.key
               /\ ret.rest = <<>>
        /\ arg.pass # Encrypted.pass =>
               /\ ret.key = NilKey
               /\ ret.err = Err("invalid passphrase or corrupt private key", <<>>)

\* an Ed25519 key with content was written under one passphrase and read
\* back under it
C14_Witness ==
    /\ RoundTripDone
    /\ Encrypted.curve = "CURVE25519"
    /\ Encrypted.key = KeyBytes(64, 65)
    /\ arg.pass = Encrypted.pass
    /\ ret.key = KeyBytes(64, 65)
    /\ ret.err = NoErr

\* the certificate that was marshalled, and the one read back from its bytes
Marshalled == calls[1].arg.c

ReadBack ==
    /\ pc = "done"
    /\ arg.op = "UnmarshalNebulaCertificate"
    /\ Len(calls) = 1
    /\ calls[1].op = "Marshal"
    /\ arg.f = calls[1].out

SameButTimes(c, d) ==
    /\ d.Name = c.Name
    /\ d.Ips = c.Ips
    /\ d.Subnets = c.Subnets
    /\ d.Groups = c.Groups
    /\ d.PublicKey = c.PublicKey
    /\ d.IsCA = c.IsCA
    /\ d.SignedBy = c.SignedBy

WholeSecond(t) == t.nsec = 0

C16_DetailsNil ==
    /\ pc # "panicked"
    /\ CodecReturned("UnmarshalNebulaCertificate") /\ Len(calls) = 0 =>
           /\ ret.err # NoErr
           /\ ret.c = Unmarshalable
           /\ Len(arg.f) = 1 /\ arg.f[1].decodes /\ ~arg.f[1].hasDetails =>
                  ret.err = Err("encoded Details was nil", <<>>)

\* bytes that decode to a message without Details were refused
C16_Witness ==
    /\ CodecReturned("UnmarshalNebulaCertificate")
    /\ Len(calls) = 0
    /\ Len(arg.f) = 1
    /\ arg.f[1].decodes
    /\ ~arg.f[1].hasDetails
    /\ ret.err = Err("encoded Details was nil", <<>>)
    /\ ret.c = Unmarshalable

\* ---------------------------------------------------------------------------
\* Interface.reloadFirewall (interface.go), run by the configuration's reload
\* callbacks, against goroutines that read Interface.firewall.
\* ---------------------------------------------------------------------------

MaxReloads == 2
\* rulesVersion is a uint16
MaxRulesVersion == 65535

Reloaders == {"r1", "r2"}
RulePool == {"rulesA"}
ConnIds == {"conn1"}

\* the rulesVersion values the Interface may start from
InitialVersions == {0, MaxRulesVersion}

\* reloadFirewall's locals, with what c.HasChanged("firewall") returned;
\* before is history: the entries of conntrack when it was locked
NoLocals ==
    [fw |-> 0, oldFw |-> 0, conntrack |-> 0, before |-> {}, changed |-> FALSE, err |-> "nil"]

\* NewFirewallFromConfig: a Firewall with the configured rules, rulesVersion
\* zero and a conntrack table of its own (the table made with it has its index)
Firewall(rules, id) == [rules |-> rules, rulesVersion |-> 0, Conntrack |-> id]

\* a firewall as a reader finds it: the pointer and the three fields behind it
Complete(id, f) ==
    [fw |-> id, rules |-> f.rules, rulesVersion |-> f.rulesVersion, Conntrack |-> f.Conntrack]

NextRulesVersionNoBump(v) == v

\* fw.rulesVersion = oldFw.rulesVersion + 1
NextRulesVersion(v) == (v + 1) % (MaxRulesVersion + 1)

InheritsConntrackAlways(v) == TRUE

\* if fw.rulesVersion == 0 { warn } else { fw.Conntrack = conntrack }
InheritsConntrack(v) == v # 0

\* the writes of reloadFirewall that other goroutines may see in any order
SwapStores(v) ==
    {"rulesVersion", "firewall"} \cup (IF InheritsConntrack(v) THEN {"Conntrack"} ELSE {})

\* config.C.ReloadConfig takes the reload mutex and runs the callbacks
ReloadConfig(r) ==
    /\ rpc[r] = "idle"
    /\ reloadLock = "free"
    /\ reloadLock' = r
    /\ rpc' = [rpc EXCEPT ![r] = "reloadFirewall"]
    /\ UNCHANGED <<firewall, fws, conns, ctLock, rloc, stores, installed, destroyed, obs>>

reloadFirewallBuildIgnoresError(r) ==
    /\ rpc[r] = "reloadFirewall"
    /\ Len(fws) <= MaxReloads
    /\ \E changed \in BOOLEAN, failed \in BOOLEAN, rules \in RulePool :
        /\ fws' = Append(fws, Firewall(rules, Len(fws) + 1))
        /\ conns' = Append(conns, {})
        /\ ctLock' = Append(ctLock, "free")
        /\ rloc' = [rloc EXCEPT ![r] =
                       [NoLocals EXCEPT !.fw = Len(fws) + 1, !.changed = changed,
                                        !.err = IF failed THEN "build failed" ELSE "nil"]]
        /\ rpc' = [rpc EXCEPT ![r] = "lock"]
    /\ UNCHANGED <<firewall, reloadLock, stores, installed, destroyed, obs>>

\* reloadFirewall up to the new firewall: no change, or a build error, returns
reloadFirewallBuild(r) ==
    /\ rpc[r] = "reloadFirewall"
    /\ \E changed \in BOOLEAN, failed \in BOOLEAN, rules \in RulePool :
        IF ~changed \/ failed
        THEN /\ rpc' = [rpc EXCEPT ![r] = "return"]
             /\ rloc' = [rloc EXCEPT ![r] =
                            [NoLocals EXCEPT !.changed = changed,
                                             !.err = IF changed THEN "build failed" ELSE "nil"]]
             /\ UNCHANGED <<fws, conns, ctLock>>
        ELSE /\ Len(fws) <= MaxReloads
             /\ fws' = Append(fws, Firewall(rules, Len(fws) + 1))
             /\ conns' = Append(conns, {})
             /\ ctLock' = Append(ctLock, "free")
             /\ rloc' = [rloc EXCEPT ![r] =
                            [NoLocals EXCEPT !.fw = Len(fws) + 1, !.changed = TRUE]]
             /\ rpc' = [rpc EXCEPT ![r] = "lock"]
    /\ UNCHANGED <<firewall, reloadLock, stores, installed, destroyed, obs>>

\* oldFw := f.firewall; conntrack := oldFw.Conntrack; conntrack.Lock(); then
\* the three assignments are issued
reloadFirewallLock(r) ==
    LET oldFw == firewall
        conntrack == fws[oldFw].Conntrack
        fw == rloc[r].fw
        v == NextRulesVersion(fws[oldFw].rulesVersion)
        installs == [fws[fw] EXCEPT !.rulesVersion = v,
                                    !.Conntrack = IF InheritsConntrack(v) THEN conntrack ELSE @]
    IN  /\ rpc[r] = "lock"
        /\ ctLock[conntrack] = "free"
        /\ ctLock' = [ctLock EXCEPT ![conntrack] = r]
        /\ rloc' = [rloc EXCEPT ![r] = [@ EXCEPT !.oldFw = oldFw, !.conntrack = conntrack,
                                                 !.before = conns[conntrack]]]
        /\ stores' = SwapStores(v)
        /\ installed' = installed \cup {Complete(fw, installs)}
        /\ rpc' = [rpc EXCEPT ![r] = "swap"]
        /\ UNCHANGED <<firewall, fws, conns, reloadLock, destroyed, obs>>

\* fw.rulesVersion = oldFw.rulesVersion + 1 reaches memory
StoreRulesVersion(r) ==
    /\ rpc[r] = "swap"
    /\ "rulesVersion" \in stores
    /\ fws' = [fws EXCEPT ![rloc[r].fw].rulesVersion =
                   NextRulesVersion(fws[rloc[r].oldFw].rulesVersion)]
    /\ stores' = stores \ {"rulesVersion"}
    /\ UNCHANGED <<firewall, conns, ctLock, reloadLock, rpc, rloc, installed, destroyed, obs>>

\* fw.Conntrack = conntrack reaches memory
StoreConntrack(r) ==
    /\ rpc[r] = "swap"
    /\ "Conntrack" \in stores
    /\ fws' = [fws EXCEPT ![rloc[r].fw].Conntrack = rloc[r].conntrack]
    /\ stores' = stores \ {"Conntrack"}
    /\ UNCHANGED <<firewall, conns, ctLock, reloadLock, rpc, rloc, installed, destroyed, obs>>

\* f.firewall = fw reaches memory
StoreFirewall(r) ==
    /\ rpc[r] = "swap"
    /\ "firewall" \in stores
    /\ firewall' = rloc[r].fw
    /\ stores' = stores \ {"firewall"}
    /\ UNCHANGED <<fws, conns, ctLock, reloadLock, rpc, rloc, installed, destroyed, obs>>

\* oldFw.Destroy(), the log line, and the deferred conntrack.Unlock()
reloadFirewallReturn(r) ==
    /\ rpc[r] = "swap"
    /\ stores = {}
    /\ ctLock' = [ctLock EXCEPT ![rloc[r].conntrack] = "free"]
    /\ destroyed' = destroyed \cup {rloc[r].oldFw}
    /\ rpc' = [rpc EXCEPT ![r] = "return"]
    /\ UNCHANGED <<firewall, fws, conns, reloadLock, rloc, stores, installed, obs>>

\* ReloadConfig returns and releases the reload mutex
ReloadConfigReturn(r) ==
    /\ rpc[r] = "return"
    /\ reloadLock' = "free"
    /\ rpc' = [rpc EXCEPT ![r] = "idle"]
    /\ rloc' = [rloc EXCEPT ![r] = NoLocals]
    /\ UNCHANGED <<firewall, fws, conns, ctLock, stores, installed, destroyed, obs>>

\* a goroutine reads f.firewall and the fields behind it, under no lock
ReadFirewall ==
    /\ obs' = Complete(firewall, fws[firewall])
    /\ UNCHANGED <<firewall, fws, conns, ctLock, reloadLock, rpc, rloc, stores, installed, destroyed>>

\* a packet is allowed: an entry is added, under the table's lock, to the
\* conntrack table of the firewall read, stamped with its rulesVersion
AddConn(e) ==
    LET f == fws[firewall]
    IN  /\ ctLock[f.Conntrack] = "free"
        /\ conns' = [conns EXCEPT ![f.Conntrack] = @ \cup {[id |-> e, rulesVersion |-> f.rulesVersion]}]
        /\ UNCHANGED <<firewall, fws, ctLock, reloadLock, rpc, rloc, stores, installed, destroyed, obs>>

\* an entry times out and is purged under the table's lock
ExpireConn ==
    \E t \in DOMAIN conns :
        /\ ctLock[t] = "free"
        /\ \E e \in conns[t] : conns' = [conns EXCEPT ![t] = @ \ {e}]
        /\ UNCHANGED <<firewall, fws, ctLock, reloadLock, rpc, rloc, stores, installed, destroyed, obs>>

reloadOther ==
    <<CAs, certBlocklist, calls, arg, ret, caPEMs, warnings, good, now, pc, closeVars, policyVars, renderVars>>

\* no certificate pool is in use
PoolIdle ==
    /\ CAs = NewCAPool.CAs
    /\ certBlocklist = NewCAPool.certBlocklist
    /\ calls = <<>>
    /\ arg = <<>>
    /\ ret = NoRet
    /\ caPEMs = <<>>
    /\ warnings = <<>>
    /\ good = 0
    /\ now = 0
    /\ pc = "idle"

InitReload ==
    /\ firewall = 1
    /\ \E v \in InitialVersions :
        fws = <<[Firewall("rules0", 1) EXCEPT !.rulesVersion = v]>>
    /\ conns = <<{}>>
    /\ ctLock = <<"free">>
    /\ reloadLock = "free"
    /\ rpc = [r \in Reloaders |-> "idle"]
    /\ rloc = [r \in Reloaders |-> NoLocals]
    /\ stores = {}
    /\ installed = {Complete(1, fws[1])}
    /\ destroyed = {}
    /\ obs = NoObs
    /\ PoolIdle
    /\ CloseIdle
    /\ PolicyIdle
    /\ RenderIdle

NextReload ==
    \/ \E r \in Reloaders : ReloadConfig(r) /\ UNCHANGED reloadOther
    \/ \E r \in Reloaders : reloadFirewallBuild(r) /\ UNCHANGED reloadOther
    \/ \E r \in Reloaders : reloadFirewallLock(r) /\ UNCHANGED reloadOther
    \/ \E r \in Reloaders : StoreRulesVersion(r) /\ UNCHANGED reloadOther
    \/ \E r \in Reloaders : StoreConntrack(r) /\ UNCHANGED reloadOther
    \/ \E r \in Reloaders : StoreFirewall(r) /\ UNCHANGED reloadOther
    \/ \E r \in Reloaders : reloadFirewallReturn(r) /\ UNCHANGED reloadOther
    \/ \E r \in Reloaders : ReloadConfigReturn(r) /\ UNCHANGED reloadOther
    \/ ReadFirewall /\ UNCHANGED reloadOther
    \/ \E e \in ConnIds : AddConn(e) /\ UNCHANGED reloadOther
    \/ ExpireConn /\ UNCHANGED reloadOther

SpecReload == InitReload /\ [][NextReload]_vars

\* ---------------------------------------------------------------------------
\* Claims about reloadFirewall
\* ---------------------------------------------------------------------------

\* reloadFirewall, having swapped the firewall, returns in this step
ReloadCompletes(r) == rpc[r] = "swap" /\ rpc'[r] = "return"

\* C17: a successful firewall reload (the firewall configuration changed and
\* the new firewall was built) leaves the new firewall installed with a
\* rulesVersion of the old one plus one (modulo 2^16) and, unless that is zero,
\* with the very conntrack table of the old firewall, in which every entry that
\* was there when the reload locked it is still there when the reload returns.
C17_ReloadKeepsConntrack ==
    [][\A r \in Reloaders :
        ReloadCompletes(r) =>
            LET old == fws[rloc[r].oldFw]
                new == fws'[firewall']
            IN  /\ firewall' = rloc[r].fw
                /\ firewall' # rloc[r].oldFw
                /\ new.rules \in RulePool
                /\ new.rulesVersion = (old.rulesVersion + 1) % 65536
                /\ new.rulesVersion # 0 =>
                       /\ new.Conntrack = old.Conntrack
                       /\ rloc[r].before \subseteq conns'[new.Conntrack]]_vars

\* a reload has just returned: the version went from 0 to 1 and the entry
\* tracked before the reload is in the table of the new firewall
C17_Witness ==
    \E r \in Reloaders :
        /\ rpc[r] = "return"
        /\ rloc[r].oldFw # 0
        /\ firewall = rloc[r].fw
        /\ fws[rloc[r].oldFw].rulesVersion = 0
        /\ fws[firewall].rulesVersion = 1
        /\ fws[firewall].Conntrack = fws[rloc[r].oldFw].Conntrack
        /\ rloc[r].before # {}
        /\ rloc[r].before \subseteq conns[fws[firewall].Conntrack]

\* C18: when the increment of rulesVersion wraps around to zero, the new
\* firewall keeps the fresh conntrack table it was built with and not the old
\* one, so that no entry made under an earlier rules version is in its table;
\* in every other reload rulesVersion goes up by exactly one.
C18_WraparoundResetsConntrack ==
    [][\A r \in Reloaders :
        ReloadCompletes(r) =>
            LET old == fws[rloc[r].oldFw]
                new == fws'[firewall']
            IN  IF old.rulesVersion = MaxRulesVersion
                THEN /\ new.rulesVersion = 0
                     /\ new.Conntrack = rloc[r].fw
                     /\ new.Conntrack # old.Conntrack
                     /\ rloc[r].before \cap conns'[new.Conntrack] = {}
                     /\ \A e \in conns'[new.Conntrack] : e.rulesVersion = 0
                ELSE new.rulesVersion = old.rulesVersion + 1]_vars

\* a reload has just returned: the version wrapped from 65535 to 0, an entry
\* was tracked before it, and the new firewall has a table of its own without it
C18_Witness ==
    \E r \in Reloaders :
        /\ rpc[r] = "return"
        /\ rloc[r].oldFw # 0
        /\ firewall = rloc[r].fw
        /\ fws[rloc[r].oldFw].rulesVersion = MaxRulesVersion
        /\ fws[firewall].rulesVersion = 0
        /\ rloc[r].before # {}
        /\ fws[firewall].Conntrack = firewall
        /\ rloc[r].before \cap conns[firewall] = {}

\* the goroutines that are between taking and releasing the reload mutex
Reloading == {r \in Reloaders : rpc[r] # "idle"}

\* C19: reloading the firewall is an atomic swap under one reload mutex: a
\* goroutine that reads the interface's firewall while reloadFirewall runs finds
\* the complete old firewall or the complete new one (rules, rulesVersion and
\* conntrack table together), never one that is partly installed, and two
\* reloads never interleave their swap.
C19_AsStated ==
    /\ obs # NoObs => obs \in installed
    /\ Cardinality(Reloading) <= 1

\* a goroutine read the new firewall while the reload that installs it had not
\* yet returned
C19_Witness ==
    \E r \in Reloaders :
        /\ rpc[r] = "swap"
        /\ obs.fw = rloc[r].fw

\* ---------------------------------------------------------------------------
\* Interface.Close (interface.go), called by one goroutine after another or by
\* two at once, and the listenIn goroutines that read the TUN device.
\* ---------------------------------------------------------------------------

\* c.routines: the number of UDP writers
MaxRoutines == 2

Closers == {"c1", "c2"}

NotCalled == [at |-> "call", i |-> 0]

\* what Close of a udp.Conn or of the overlay.Device returns: nil when it
\* closes an open one; io.Closer leaves Close after the first call undefined,
\* so closing a closed one returns nil or an error
CloseResults(h) == IF h = "open" THEN {"nil"} ELSE {"nil", "ErrClosed"}

\* what reader.Read returns with an error: os.ErrClosed once the device is
\* closed, or at any time an error of the file descriptor
ReadErrors == (IF inside = "closed" THEN {"ErrClosed"} ELSE {}) \cup {"EIO"}

\* reader.Read has returned no error yet
NoReadError == [err |-> "none", closed |-> FALSE]

listenInSkips(w) ==
    /\ exitCode = "running"
    /\ lpc[w] = "read"
    /\ \E err \in ReadErrors :
           lerr' = [lerr EXCEPT ![w] = [err |-> err, closed |-> closed]]
    /\ UNCHANGED <<closed, writers, inside, cpc, cret, errlog, lpc, exitCode>>

\* listenIn: reader.Read fails; the goroutine returns when the error is
\* os.ErrClosed and f.closed is set, otherwise the process exits with code 2
listenIn(w) ==
    /\ exitCode = "running"
    /\ lpc[w] = "read"
    /\ \E err \in ReadErrors :
           /\ lerr' = [lerr EXCEPT ![w] = [err |-> err, closed |-> closed]]
           /\ IF err = "ErrClosed" /\ closed
              THEN lpc' = [lpc EXCEPT ![w] = "returned"] /\ UNCHANGED exitCode
              ELSE exitCode' = "2" /\ UNCHANGED lpc
    /\ UNCHANGED <<closed, writers, inside, cpc, cret, errlog>>

CloseStoreNoFlag(c) ==
    /\ exitCode = "running"
    /\ cpc[c].at = "call"
    /\ cpc' = [cpc EXCEPT ![c] = [at |-> "writers", i |-> 1]]
    /\ UNCHANGED <<closed, writers, inside, cret, errlog, lpc, lerr, exitCode>>

\* f.closed.Store(true)
CloseStore(c) ==
    /\ exitCode = "running"
    /\ cpc[c].at = "call"
    /\ closed' = TRUE
    /\ cpc' = [cpc EXCEPT ![c] = [at |-> "writers", i |-> 1]]
    /\ UNCHANGED <<writers, inside, cret, errlog, lpc, lerr, exitCode>>

CloseWriterSkips(c) ==
    LET i == cpc[c].i
    IN  /\ exitCode = "running"
        /\ cpc[c].at = "writers"
        /\ cpc' = [cpc EXCEPT ![c] = IF i < Len(writers)
                                     THEN [at |-> "writers", i |-> i + 1]
                                     ELSE [at |-> "inside", i |-> 0]]
        /\ UNCHANGED <<closed, writers, inside, cret, errlog, lpc, lerr, exitCode>>

\* one turn of the loop: err := u.Close(); an error is logged and dropped
CloseWriter(c) ==
    LET i == cpc[c].i
    IN  /\ exitCode = "running"
        /\ cpc[c].at = "writers"
        /\ \E err \in CloseResults(writers[i]) :
               errlog' = IF err # "nil" THEN errlog + 1 ELSE errlog
        /\ writers' = [writers EXCEPT ![i] = "closed"]
        /\ cpc' = [cpc EXCEPT ![c] = IF i < Len(writers)
                                     THEN [at |-> "writers", i |-> i + 1]
                                     ELSE [at |-> "inside", i |-> 0]]
        /\ UNCHANGED <<closed, inside, cret, lpc, lerr, exitCode>>

\* return f.inside.Close()
CloseInside(c) ==
    /\ exitCode = "running"
    /\ cpc[c].at = "inside"
    /\ \E err \in CloseResults(inside) : cret' = [cret EXCEPT ![c] = err]
    /\ inside' = "closed"
    /\ cpc' = [cpc EXCEPT ![c] = [at |-> "returned", i |-> 0]]
    /\ UNCHANGED <<closed, writers, errlog, lpc, lerr, exitCode>>

closeOther ==
    <<CAs, certBlocklist, calls, arg, ret, caPEMs, warnings, good, now, pc, reloadVars, policyVars, renderVars>>

InitClose ==
    /\ closed = FALSE
    /\ \E routines \in 1..MaxRoutines : writers = [i \in 1..routines |-> "open"]
    /\ inside = "open"
    /\ cpc = [c \in Closers |-> NotCalled]
    /\ cret = [c \in Closers |-> "none"]
    /\ errlog = 0
    /\ lpc = [w \in DOMAIN writers |-> "read"]
    /\ lerr = [w \in DOMAIN writers |-> NoReadError]
    /\ exitCode = "running"
    /\ PoolIdle
    /\ ReloadIdle
    /\ PolicyIdle
    /\ RenderIdle

NextClose ==
    \/ \E c \in Closers : CloseStore(c) /\ UNCHANGED closeOther
    \/ \E c \in Closers : CloseWriter(c) /\ UNCHANGED closeOther
    \/ \E c \in Closers : CloseInside(c) /\ UNCHANGED closeOther
    \/ \E w \in DOMAIN lpc : listenIn(w) /\ UNCHANGED closeOther

SpecClose == InitClose /\ [][NextClose]_vars

\* ---------------------------------------------------------------------------
\* Claims about Interface.Close
\* ---------------------------------------------------------------------------

AllClosed ==
    /\ closed
    /\ \A i \in DOMAIN writers : writers[i] = "closed"
    /\ inside = "closed"

\* C20: Interface.Close is idempotent: a call of Close after, or together
\* with, another one leaves the interface closed as one call does (closed set,
\* every UDP writer and the TUN device closed) and does not fail because of the
\* other call.
C20_AsStated ==
    \A c \in Closers :
        cpc[c].at = "returned" => AllClosed /\ cret[c] = "nil"

\* both calls of Close have returned and the interface is closed
C20_Witness ==
    /\ \A c \in Closers : cpc[c].at = "returned"
    /\ AllClosed

\* a handle that Close closes has been closed
SomeClosed == inside = "closed" \/ \E i \in DOMAIN writers : writers[i] = "closed"

\* C21 as stated: on shutdown the TUN device is closed before the UDP sockets,
\* and a worker stops only after it has observed the closed flag.
C21_AsStated ==
    /\ (\E i \in DOMAIN writers : writers[i] = "closed") => inside = "closed"
    /\ \A w \in DOMAIN lpc : lpc[w] = "returned" => closed

\* C21: on shutdown Close sets the closed flag, then closes the UDP sockets,
\* then the TUN device (the TUN device is never closed while a UDP socket is
\* open), and a worker stops only after it has observed the closed flag.
C21_CloseOrder ==
    /\ SomeClosed => closed
    /\ inside = "closed" => \A i \in DOMAIN writers : writers[i] = "closed"
    /\ \A w \in DOMAIN lpc : lpc[w] = "returned" => closed /\ lerr[w].closed

\* Close has returned and a worker has stopped
C21_Witness ==
    /\ \E c \in Closers : cpc[c].at = "returned"
    /\ \E w \in DOMAIN lpc : lpc[w] = "returned"
    /\ AllClosed

\* the read error of worker w is the one listenIn returns on
QuietError(w) == lerr[w].err = "ErrClosed" /\ lerr[w].closed

\* C22: a TUN read error in a listenIn worker ends the whole process with exit
\* code 2, except when the error is os.ErrClosed and the closed flag is set:
\* then that worker returns and does not end the process; no read error is
\* passed over with the worker reading on.
C22_ReadErrorIsFatal ==
    /\ \A w \in DOMAIN lpc :
        lerr[w].err # "none" =>
            IF QuietError(w) THEN lpc[w] = "returned" ELSE exitCode = "2"
    /\ exitCode = "2" => \E w \in DOMAIN lpc : lerr[w].err # "none" /\ ~QuietError(w)
    /\ \A w \in DOMAIN lpc :
        lpc[w] = "read" /\ exitCode = "running" => lerr[w].err = "none"

\* one worker has returned on os.ErrClosed after Close, and another one's read
\* error has ended the process with exit code 2
C22_Witness ==
    \E w1, w2 \in DOMAIN lpc :
        /\ lpc[w1] = "returned"
        /\ lerr[w1].err = "ErrClosed"
        /\ lerr[w2].err = "EIO"
        /\ exitCode = "2"

\* ---------------------------------------------------------------------------
\* sendRecvErrorConfig and Interface.reloadSendRecvError (interface.go)
\* ---------------------------------------------------------------------------

sendRecvErrorAlways == "always"
sendRecvErrorNever == "never"
sendRecvErrorPrivate == "private"

\* netip.Addr.IsPrivate: 10/8, 172.16/12, 192.168/16 and fc00::/7
IsPrivate(ip) ==
    IF ip.is4
    THEN \/ ip.b0 = 10
         \/ ip.b0 = 172 /\ ip.b1 \div 16 = 1
         \/ ip.b0 = 192 /\ ip.b1 = 168
    ELSE ip.b0 \div 2 = 126

ShouldSendRecvErrorIgnoresPolicy(s, ip) == TRUE

\* sendRecvErrorConfig.ShouldSendRecvError
ShouldSendRecvError(s, ip) ==
    CASE s = sendRecvErrorPrivate -> IsPrivate(ip)
      [] s = sendRecvErrorAlways -> TRUE
      [] s = sendRecvErrorNever -> FALSE

\* config.C.GetString: the value of the key, or d when the key is not set
GetString(v, d) == IF v = "absent" THEN d ELSE v

\* config.C.GetBool: the value read as a boolean, or d when it is none
GetBool(v, d) ==
    CASE v \in {"true", "yes"} -> TRUE
      [] v \in {"false", "no"} -> FALSE
      [] OTHER -> d

\* reloadSendRecvError: the policy after the call, from the policy before it,
\* c.InitialLoad(), c.HasChanged("listen.send_recv_error") and the value set
reloadSendRecvError(s, initial, changed, v) ==
    IF initial \/ changed
    THEN LET stringValue == GetString(v, "never")
         IN  CASE stringValue = "always" -> sendRecvErrorAlways
               [] stringValue = "never" -> sendRecvErrorNever
               [] stringValue = "private" -> sendRecvErrorPrivate
               [] OTHER -> IF GetBool(v, TRUE)
                           THEN sendRecvErrorAlways
                           ELSE sendRecvErrorNever
    ELSE s

\* what listen.send_recv_error may be set to
ConfigValues ==
    {"absent", "always", "never", "private", "true", "false", "yes", "no", "sometimes"}

\* remote addresses: private and public ones on both sides of each boundary
Remotes ==
    {[is4 |-> TRUE, b0 |-> a, b1 |-> b] :
        a \in {9, 10, 172, 192}, b \in {0, 15, 16, 31, 32, 168}}
    \cup {[is4 |-> FALSE, b0 |-> a, b1 |-> 0] : a \in {32, 251, 252, 253, 254}}

policyOther ==
    <<CAs, certBlocklist, calls, caPEMs, warnings, good, now, reloadVars, closeVars, renderVars>>

\* the start of the process: the configuration is loaded and
\* reloadSendRecvError is called with c.InitialLoad() true
reloadSendRecvErrorInitial ==
    /\ pc = "start"
    /\ sendRecvErrorConfig' = reloadSendRecvError(sendRecvErrorConfig, TRUE, FALSE, settings)
    /\ pc' = "loaded"
    /\ UNCHANGED <<arg, ret, settings, oldSettings, policyOther>>

\* a reload of the configuration: the settings are replaced and the callback
\* reloadSendRecvError runs
reloadSendRecvErrorReload ==
    /\ pc = "loaded"
    /\ \E v \in ConfigValues :
        /\ oldSettings' = settings
        /\ settings' = v
        /\ sendRecvErrorConfig' =
               reloadSendRecvError(sendRecvErrorConfig, FALSE, v # settings, v)
    /\ UNCHANGED <<arg, ret, pc, policyOther>>

\* a packet for an unknown tunnel arrives from ip
ShouldSendRecvErrorCall ==
    /\ pc = "loaded"
    /\ \E ip \in Remotes :
        /\ arg' = [op |-> "ShouldSendRecvError", s |-> sendRecvErrorConfig, ip |-> ip]
        /\ ret' = [op |-> "ShouldSendRecvError",
                   ok |-> ShouldSendRecvError(sendRecvErrorConfig, ip),
                   err |-> NoErr]
    /\ UNCHANGED <<pc, policyVars, policyOther>>

InitPolicy ==
    /\ sendRecvErrorConfig = sendRecvErrorAlways
    /\ settings \in ConfigValues
    /\ oldSettings = "unloaded"
    /\ pc = "start"
    /\ arg = <<>>
    /\ ret = NoRet
    /\ CAs = NewCAPool.CAs
    /\ certBlocklist = NewCAPool.certBlocklist
    /\ calls = <<>>
    /\ caPEMs = <<>>
    /\ warnings = <<>>
    /\ good = 0
    /\ now = 0
    /\ ReloadIdle
    /\ CloseIdle
    /\ RenderIdle

NextPolicy ==
    \/ reloadSendRecvErrorInitial
    \/ reloadSendRecvErrorReload
    \/ ShouldSendRecvErrorCall

SpecPolicy == InitPolicy /\ [][NextPolicy]_vars

\* ---------------------------------------------------------------------------
\* Claims about the send_recv_error policy
\* ---------------------------------------------------------------------------

\* C23: ShouldSendRecvError returns true for every remote under the policy
\* always, false for every remote under never, and under private true exactly
\* for the remotes with a private address; reloadSendRecvError maps the strings
\* "always", "never" and "private" to these policies and any other value
\* through its reading as a boolean: true to always, false to never.
C23_SendRecvErrorPolicy ==
    /\ ret.op = "ShouldSendRecvError" =>
        /\ arg.s = "always" => ret.ok
        /\ arg.s = "never" => ~ret.ok
        /\ arg.s = "private" => (ret.ok <=> IsPrivate(arg.ip))
    /\ pc = "loaded" =>
        /\ settings = "always" => sendRecvErrorConfig = "always"
        /\ settings = "never" => sendRecvErrorConfig = "never"
        /\ settings = "private" => sendRecvErrorConfig = "private"
        /\ settings = "true" => sendRecvErrorConfig = "always"
        /\ settings = "false" => sendRecvErrorConfig = "never"

\* under the policy private a private remote was answered, then a reload set
\* the value false and the policy became never
C23_Witness ==
    /\ pc = "loaded"
    /\ ret.op = "ShouldSendRecvError"
    /\ arg.s = "private"
    /\ IsPrivate(arg.ip)
    /\ ret.ok
    /\ oldSettings = "private"
    /\ settings = "false"
    /\ sendRecvErrorConfig = "never"

\* C24: when listen.send_recv_error is not set in the configuration, the
\* policy after the initial load is always: packets for which there is no
\* tunnel are answered with a recv_error packet.
C24_AsStated ==
    (pc = "loaded" /\ oldSettings = "unloaded" /\ settings = "absent") =>
        /\ sendRecvErrorConfig = "always"
        /\ ret.op = "ShouldSendRecvError" => ret.ok

\* the initial load has run on a configuration without listen.send_recv_error
\* and a packet for an unknown tunnel has been handled
C24_Witness ==
    /\ pc = "loaded"
    /\ oldSettings = "unloaded"
    /\ settings = "absent"
    /\ ret.op = "ShouldSendRecvError"

\* ---------------------------------------------------------------------------
\* Claims about the loop of NewCAPoolFromBytes
\* ---------------------------------------------------------------------------

\* the goroutine that called NewCAPoolFromBytes keeps running
SpecLoadFair == InitLoad /\ [][NextLoad]_vars /\ WF_vars(NextLoad)

\* the test that ends the loop
AtEnd(b) == Len(b) = 0 \/ IsBlank(b)

\* C25: NewCAPoolFromBytes terminates on every input: each pass through the
\* loop returns or goes on with a strictly shorter remainder (also after the
\* warning for an expired CA or an unsupported banner), the loop is left as
\* soon as the remainder is empty or only whitespace, and the call returns.
C25_LoadTerminates ==
    /\ [][pc = "loop" =>
            /\ pc' = "done" \/ Len(caPEMs') < Len(caPEMs)
            /\ pc' = "loop" <=> (pc' # "done" /\ ~AtEnd(caPEMs'))]_vars
    /\ <>(pc = "done")

\* the call has returned a pool from three blocks, two of which only gave
\* warnings: an expired CA and an unsupported banner
C25_Witness ==
    /\ pc = "done"
    /\ ret.ok
    /\ Len(arg.f) = 3
    /\ \E i, j \in DOMAIN warnings :
        /\ ErrorsIs(warnings[i], ErrExpired)
        /\ ErrorsIs(warnings[j], ErrInvalidPEMCertificateUnsupported)

\* item i of the input fails with an error that is no warning: a block that
\* is neither a self-signed CA certificate nor a V2 block, or text that no
\* block follows
HardAt(i) ==
    \/ input[i].kind = "block" /\ ~IsCABlock(input[i]) /\ ~IsV2Block(input[i])
    \/ input[i].kind = "text" /\ \A j \in (i + 1)..Len(input) : input[j].kind # "block"

HardItems == {i \in 1..Len(input) : HardAt(i)}

FirstHard == CHOOSE i \in HardItems : \A j \in HardItems : i <= j

\* C26: NewCAPoolFromBytes is all-or-nothing with respect to hard errors:
\* when something in the input fails with an error other than ErrExpired or
\* ErrInvalidPEMCertificateUnsupported, the call returns a nil pool and that
\* error (the one AddCACertificate gave for it), even when valid CA
\* certificates came earlier in the input, together with the warnings
\* collected up to that point (one for each expired CA and each V2 block
\* before it); the call returns an error from inside the loop only for such
\* an input or for one that holds no block at all.
C26_HardErrorFailsAll ==
    /\ []((Returned /\ HardItems # {}) =>
            /\ ret.ok = FALSE
            /\ ret.err # NoErr
            /\ ret.err # ErrNoValidCA
            /\ ~ErrorsIs(ret.err, ErrExpired)
            /\ ~ErrorsIs(ret.err, ErrInvalidPEMCertificateUnsupported)
            /\ Len(warnings) =
                   Cardinality({i \in ExpiredCAs \cup V2Blocks : i < FirstHard}))
    /\ [][(pc = "loop" /\ pc' = "done") =>
            /\ ret'.ok = FALSE
            /\ ret'.err = AddCACertificate(CAs, caPEMs, now).err
            /\ warnings' = warnings
            /\ HardItems # {} \/ \A i \in 1..Len(input) : input[i].kind # "block"]_vars

\* a valid CA, then an expired CA, then a certificate that is no CA: the
\* call has returned no pool, the error of the third block and one warning
C26_Witness ==
    /\ Returned
    /\ Len(input) = 3
    /\ IsFreshCA(input[1])
    /\ IsExpiredCA(input[2])
    /\ HardItems = {3}
    /\ ret.ok = FALSE
    /\ ErrorsIs(ret.err, ErrNotCA)
    /\ Len(warnings) = 1
    /\ good = 1

\* C27: when the firewall section of the configuration has not changed, or
\* when building the new firewall fails, reloadFirewall returns and leaves the
\* installed firewall, its rulesVersion and its conntrack table as they were;
\* after a failed build the old firewall stays in force and is not destroyed.
\* Only a changed section that builds goes on to the swap.
C27_ReloadLeavesFirewall ==
    /\ [][\A r \in Reloaders :
            (rpc[r] = "reloadFirewall" /\ rpc'[r] # "reloadFirewall"
                /\ (~rloc'[r].changed \/ rloc'[r].err # "nil")) =>
                /\ rpc'[r] = "return"
                /\ firewall' = firewall
                /\ fws' = fws
                /\ conns' = conns
                /\ stores' = stores
                /\ destroyed' = destroyed]_vars
    /\ [](\A r \in Reloaders :
            rpc[r] \in {"lock", "swap"} => rloc[r].changed /\ rloc[r].err = "nil")
    /\ [](firewall \notin destroyed)

\* after one reload that installed a firewall, a reload whose build failed has
\* returned: the installed firewall, with the entry tracked in its table, is
\* in force and not destroyed
C27_Witness ==
    \E r \in Reloaders :
        /\ rpc[r] = "return"
        /\ rloc[r].changed
        /\ rloc[r].err = "build failed"
        /\ firewall = 2
        /\ destroyed = {1}
        /\ conns[fws[firewall].Conntrack] # {}

\* C28: Close sets the closed flag before it closes a UDP writer or the TUN
\* device, so that in every interleaving a listenIn worker whose read fails
\* with os.ErrClosed finds the flag set and returns; the process is ended with
\* exit code 2 only by a read error that is not os.ErrClosed, never by Close.
C28_CloseNeverExits ==
    /\ SomeClosed => closed
    /\ \A w \in DOMAIN lpc :
        lerr[w].err = "ErrClosed" => lerr[w].closed /\ lpc[w] = "returned"
    /\ exitCode = "2" => \E w \in DOMAIN lpc : lerr[w].err = "EIO"

\* a call of Close is still closing the UDP writers after another has closed
\* the TUN device; every worker has returned on os.ErrClosed and the process
\* runs
C28_Witness ==
    /\ \E c \in Closers : cpc[c].at = "writers"
    /\ inside = "closed"
    /\ Len(lpc) = 2
    /\ \A w \in DOMAIN lpc : lpc[w] = "returned" /\ lerr[w].err = "ErrClosed"
    /\ exitCode = "running"


----------------------------------------------------------------------------
(* RenderHostmaps (render.go): the hostmaps of some interfaces drawn as a
   graph.  The text is a sequence of lines; a line is the format string that
   printed it (without its tabs and its newline) and the values printed.  A
   Go map is read through range, which delivers the keys in an order that
   is not specified: every order is a possible one. *)

\* the certificate names, by overlay address: Names[k] has the address 1.0.0.k
Names == <<"a", "b", "c", "d">>

\* the interfaces that are rendered, by overlay address
Clusters == {1, 2}

\* the peers of an interface
Peers(c) == {1, 2, 3} \ {c}

\* the hosts that relay, and the relay indexes a direct peer relays for
RelayIps == {3, 4}
RelayIdxs == {7, 8}

\* string order of two names
NameLess(x, y) ==
    \E i, j \in DOMAIN Names : Names[i] = x /\ Names[j] = y /\ i < j

\* netip.Addr.IsValid: the zero Addr is written 0
IsValid(ip) == ip # 0

\* the index an interface gives its tunnel to a peer: 5 for the peer with the
\* lower address, 6 for the other.  Overlay addresses are below 5 and indexes
\* are single digits from 5, so that the order of two printed values as
\* strings is the order of the numbers
LocalIndex(c, peer) == IF peer = CHOOSE p \in Peers(c) : \A q \in Peers(c) : p <= q THEN 5 ELSE 6

\* a HostInfo of interface c for a peer: reached directly at the peer's
\* address, or through the relays with no remote address of its own
HostInfo(c, peer, direct) ==
    [vpnIp |-> peer,
     localIndexId |-> LocalIndex(c, peer),
     remoteIndexId |-> IF peer \in Clusters THEN LocalIndex(peer, c) ELSE 5,
     remote |-> IF direct THEN peer ELSE 0,
     name |-> Names[peer],
     relays |-> IF direct THEN {} ELSE RelayIps \ {peer},
     relayForIdxs |-> IF direct THEN RelayIdxs ELSE {}]

\* the orders in which range can deliver the keys of a map: every sequence
\* that holds each key once
Orders(S) ==
    {s \in [1..Cardinality(S) -> S] : \A x \in S : \E i \in 1..Cardinality(S) : s[i] = x}

\* the keys in ascending order
Ascending(S) == CHOOSE s \in Orders(S) : \A i, j \in 1..Cardinality(S) : i < j => s[i] < s[j]

\* sort.SliceStable: each element is put behind the last element of the
\* sorted part that it is not less than
InsertStable(t, x, less(_, _)) ==
    LET notAfter == {i \in 1..Len(t) : ~less(x, t[i])}
        at == IF notAfter = {} THEN 0 ELSE CHOOSE i \in notAfter : \A j \in notAfter : j <= i
    IN SubSeq(t, 1, at) \o <<x>> \o SubSeq(t, at + 1, Len(t))

SliceStable(s, less(_, _)) ==
    LET sorted[k \in 0..Len(s)] ==
            IF k = 0 THEN <<>> ELSE InsertStable(sorted[k - 1], s[k], less)
    IN sorted[Len(s)]

\* sortedHosts that leaves the keys as range delivered them
sortedHostsUnsorted(keys) == keys

\* sortedHosts(hosts): keys holds the keys of hosts as range delivered them
sortedHosts(keys) == SliceStable(keys, LAMBDA a, b : a < b)

\* sortedIndexes(indexes): keys holds the keys as range delivered them
sortedIndexes(keys) == SliceStable(keys, LAMBDA a, b : a > b)

\* a line of text: what fmt.Sprintf(f, n1, x, n2, y) prints
Line(f, n1, x, n2, y) == [f |-> f, n1 |-> n1, x |-> x, n2 |-> n2, y |-> y]

\* an edge inside one host: "name_from" -> "name_to", red when invalid
Arrow(from, to, red) == [from |-> from, to |-> to, red |-> red]

\* the order of two such edges as strings
ArrowLess(a, b) ==
    \/ a.from < b.from
    \/ a.from = b.from /\ a.to < b.to
    \/ a.from = b.from /\ a.to = b.to /\ ~a.red /\ b.red

\* a node of the graph: "name_id"
Node(name, id) == [name |-> name, id |-> id]

NodeLess(u, v) == NameLess(u.name, v.name) \/ (u.name = v.name /\ u.id < v.id)

\* type edge struct
Edge(from, to, invalid) == [from |-> from, to |-> to, dual |-> FALSE, invalid |-> invalid]

\* several sequences in a row
Flatten(ss) ==
    LET cat[k \in 0..Len(ss)] == IF k = 0 THEN <<>> ELSE cat[k - 1] \o ss[k]
    IN cat[Len(ss)]


\* renderHostmap, to the point where the read lock is taken: the header of
\* the interface f, whose certificate has the name f.name and the address f.ip
renderHostmapOpen(mermaid, f) ==
    [r |-> IF mermaid
             THEN <<Line("subgraph %s[\"%s (%s)\"]", f.name, f.ip, "", 0)>>
             ELSE <<Line("subgraph cluster_%s {", f.name, 0, "", 0),
                    Line("label=\"%s (%s)\"", f.name, f.ip, "", 0)>>,
     lines |-> <<>>,
     globalLines |-> <<>>]

\* the edges of one host: to its index, to its relays, to the indexes it
\* relays for; ips and idxs are what CopyRelayIps and CopyRelayForIdxs returned
HostArrows(mermaid, vpnIp, hi, ips, idxs) ==
    <<Arrow(vpnIp, hi.localIndexId, ~mermaid /\ ~IsValid(hi.remote))>>
        \o [k \in 1..Len(ips) |-> Arrow(vpnIp, ips[k], FALSE)]
        \o [k \in 1..Len(idxs) |-> Arrow(vpnIp, idxs[k], FALSE)]

\* renderHostmap, the hosts: keys is f.hostMap.Hosts as range delivered it,
\* copies[ip] what the relay state of the host ip returned
renderHostmapHostsOf(mermaid, f, loc, keys, copies) ==
    LET hosts == sortedHosts(keys)
        head == IF mermaid
                  THEN <<Line("subgraph %s.hosts[\"Hosts\"]", f.name, 0, "", 0)>>
                  ELSE <<Line("subgraph cluster_%s_hosts {", f.name, 0, "", 0),
                         Line("label=\"Hosts\"", "", 0, "", 0)>>
        nodes == [k \in 1..Len(hosts) |->
                    Line(IF mermaid THEN "%v.%v[\"%v\"]" ELSE "\"%v_%v\" [label=\"%v\"]",
                         f.name, hosts[k], "", 0)]
        arrows == Flatten([k \in 1..Len(hosts) |->
                    HostArrows(mermaid, hosts[k], f.hostMap.Hosts[hosts[k]],
                               copies[hosts[k]].ips, copies[hosts[k]].idxs)])
        tail == <<Line(IF mermaid THEN "end" ELSE "}", "", 0, "", 0)>>
    IN [loc EXCEPT !.r = @ \o head \o nodes \o tail, !.lines = @ \o arrows]

\* renderHostmap, the relay hostinfos: keys is f.hostMap.Relays as range
\* delivered it
renderHostmapRelaysOf(mermaid, f, loc, keys) ==
    LET indexes == sortedIndexes(keys)
        head == IF mermaid
                  THEN <<Line("subgraph %s.relays[\"Relays\"]", f.name, 0, "", 0)>>
                  ELSE <<Line("subgraph cluster_%s_relays {", f.name, 0, "", 0),
                         Line("label=\"Relays\"", "", 0, "", 0)>>
        nodes == [k \in 1..Len(indexes) |->
                    Line(IF mermaid THEN "%v.%v[\"%v\\n%v\"]" ELSE "\"%v_%v\" [label=\"%v\\n%v\"]",
                         f.name, indexes[k], "", f.hostMap.Relays[indexes[k]].vpnIp)]
        arrows == [k \in 1..Len(indexes) |->
                    Arrow(indexes[k], f.hostMap.Relays[indexes[k]].localIndexId, FALSE)]
        tail == <<Line(IF mermaid THEN "end" ELSE "}", "", 0, "", 0)>>
    IN IF Len(keys) > 0
         THEN [loc EXCEPT !.r = @ \o head \o nodes \o tail, !.lines = @ \o arrows]
         ELSE loc

\* renderHostmap, the local indexes: keys is f.hostMap.Indexes as range
\* delivered it
renderHostmapIndexesOf(mermaid, f, loc, keys) ==
    LET indexes == sortedIndexes(keys)
        hi(k) == f.hostMap.Indexes[indexes[k]]
        head == IF mermaid
                  THEN <<Line("subgraph indexes.%s[\"Indexes\"]", f.name, 0, "", 0)>>
                  ELSE <<Line("subgraph cluster_%s_indexes {", f.name, 0, "", 0),
                         Line("label=\"Indexes\"", "", 0, "", 0)>>
        nodes == [k \in 1..Len(indexes) |->
                    Line(IF mermaid THEN "%v.%v[\"%v\\n%v\"]"
                         ELSE IF ~IsValid(hi(k).remote)
                           THEN "\"%v_%v\" [label=\"%v\\n%v\" color=red]"
                           ELSE "\"%v_%v\" [label=\"%v\\n%v\"]",
                         f.name, indexes[k], "", hi(k).remote)]
        edges == [k \in 1..Len(indexes) |->
                    Edge(Node(f.name, indexes[k]), Node(hi(k).name, hi(k).remoteIndexId),
                         ~mermaid /\ ~IsValid(hi(k).remote))]
        tail == <<Line(IF mermaid THEN "end" ELSE "}", "", 0, "", 0)>>
    IN [loc EXCEPT !.r = @ \o head \o nodes \o tail, !.globalLines = @ \o edges]

\* renderHostmap, the edges inside this host, sorted as strings
renderHostmapEdgesOf(mermaid, f, loc) ==
    LET lines == SliceStable(loc.lines, ArrowLess)
        text == [k \in 1..Len(lines) |->
                    Line(IF mermaid THEN "%v.%v --> %v.%v"
                         ELSE IF lines[k].red THEN "\"%v_%v\" -> \"%v_%v\" [color=red]"
                         ELSE "\"%v_%v\" -> \"%v_%v\"",
                         f.name, lines[k].from, f.name, lines[k].to)]
        tail == <<Line(IF mermaid THEN "end" ELSE "}", "", 0, "", 0)>>
    IN [loc EXCEPT !.r = @ \o text \o tail, !.lines = lines]

\* RenderHostmaps, the header
RenderHostmapsOpen(mermaid) ==
    IF mermaid
      THEN <<Line("graph TB", "", 0, "", 0)>>
      ELSE <<Line("digraph G {", "", 0, "", 0),
             Line("ranksep=1", "", 0, "", 0),
             Line("node [shape=box]", "", 0, "", 0)>>

\* RenderHostmaps, the inner loop: the edge e joins lines unless its reverse
\* is there, which then becomes dual
Collapse(lines, e) ==
    LET rev == {k \in 1..Len(lines) : e.to = lines[k].from /\ e.from = lines[k].to}
        first == CHOOSE k \in rev : \A j \in rev : k <= j
    IN IF rev = {}
         THEN Append(lines, e)
         ELSE [lines EXCEPT ![first].dual = TRUE]

CollapseAll(lines, se) ==
    LET acc[k \in 0..Len(se)] == IF k = 0 THEN lines ELSE Collapse(acc[k - 1], se[k])
    IN acc[Len(se)]

\* the order RenderHostmaps sorts the edges in: by from, then by to
EdgeLess(a, b) ==
    IF a.from = b.from THEN NodeLess(a.to, b.to) ELSE NodeLess(a.from, b.from)

\* RenderHostmaps, from the sort of the edges to the end
RenderHostmapsClose(mermaid, r, edges) ==
    LET lines == SliceStable(edges, EdgeLess)
        text == [k \in 1..Len(lines) |->
                    Line(IF mermaid
                           THEN IF lines[k].dual THEN "%v <--> %v" ELSE "%v --> %v"
                         ELSE IF lines[k].dual
                           THEN IF lines[k].invalid THEN "%v -> %v [dir=both color=red]"
                                ELSE "%v -> %v [dir=both]"
                         ELSE IF lines[k].invalid THEN "%v -> %v [color=red]"
                         ELSE "%v -> %v",
                         lines[k].from.name, lines[k].from.id,
                         lines[k].to.name, lines[k].to.id)]
    IN r \o text \o (IF mermaid THEN <<>> ELSE <<Line("}", "", 0, "", 0)>>)


\* the Interface c as renderHostmap reads it
InterfaceOf(c) == [name |-> Names[c], ip |-> c, hostMap |-> hostMap[c]]

\* what CopyRelayIps and CopyRelayForIdxs can return for the hosts of a
\* hostmap: the relays of each host, in any order
Copies(hosts) ==
    {cp \in [DOMAIN hosts -> [ips : UNION {Orders(S) : S \in SUBSET RelayIps},
                              idxs : UNION {Orders(S) : S \in SUBSET RelayIdxs}]] :
        \A ip \in DOMAIN hosts :
            /\ cp[ip].ips \in Orders(hosts[ip].relays)
            /\ cp[ip].idxs \in Orders(hosts[ip].relayForIdxs)}

\* the slices of interfaces RenderHostmaps is called with
InterfaceLists == {<<1, 2>>, <<2, 1>>}

NoLoc == [r |-> <<>>, lines |-> <<>>, globalLines |-> <<>>]

NoRender ==
    [at |-> "idle", mermaid |-> FALSE, interfaces |-> <<>>, i |-> 0,
     r |-> <<>>, lines |-> <<>>, se |-> <<>>, loc |-> NoLoc, same |-> TRUE]

NoHostMap == [Hosts |-> <<>>, Relays |-> <<>>, Indexes |-> <<>>]

\* a map with the key k set to v, and with the key k deleted
MapSet(m, k, v) == [x \in DOMAIN m \cup {k} |-> IF x = k THEN v ELSE m[x]]

MapDelete(m, k) ==
    IF DOMAIN m \subseteq {k} THEN <<>> ELSE [x \in DOMAIN m \ {k} |-> m[x]]

\* history: rend.same tells whether the hostmaps are still as they were when
\* RenderHostmaps was last called; a writer that acts after the call clears it
Written == [rend EXCEPT !.same = @ /\ rend.at = "idle"]

renderOther ==
    <<CAs, certBlocklist, calls, arg, ret, caPEMs, warnings, good, now, pc,
      reloadVars, closeVars, policyVars>>

\* a writer of the hostmap of c, under the write lock: the tunnel to a peer
\* is stored in Hosts and Indexes, and in Relays when it goes through relays
AddHostInfo(c, peer, direct) ==
    /\ rlock[c] = 0
    /\ LET hi == HostInfo(c, peer, direct)
           hm == hostMap[c]
       IN hostMap' = [hostMap EXCEPT ![c] =
            [Hosts |-> MapSet(hm.Hosts, peer, hi),
             Indexes |-> MapSet(hm.Indexes, hi.localIndexId, hi),
             Relays |-> IF direct THEN MapDelete(hm.Relays, hi.localIndexId + 2)
                        ELSE MapSet(hm.Relays, hi.localIndexId + 2, hi)]]
    /\ hostMap'[c] # hostMap[c]
    /\ rend' = Written
    /\ UNCHANGED <<rlock, renderOther>>

\* a writer of the hostmap of c, under the write lock: a tunnel is deleted
DeleteHostInfo(c, peer) ==
    /\ rlock[c] = 0
    /\ peer \in DOMAIN hostMap[c].Hosts
    /\ LET hi == hostMap[c].Hosts[peer]
           hm == hostMap[c]
       IN hostMap' = [hostMap EXCEPT ![c] =
            [Hosts |-> MapDelete(hm.Hosts, peer),
             Indexes |-> MapDelete(hm.Indexes, hi.localIndexId),
             Relays |-> MapDelete(hm.Relays, hi.localIndexId + 2)]]
    /\ rend' = Written
    /\ UNCHANGED <<rlock, renderOther>>

\* RenderHostmaps is called: lines 25-34
RenderHostmapsCall ==
    /\ rend.at \in {"idle", "done"}
    /\ \E mermaid \in BOOLEAN, interfaces \in InterfaceLists :
        rend' = [NoRender EXCEPT !.at = "loop", !.mermaid = mermaid,
                                 !.interfaces = interfaces, !.i = 1,
                                 !.r = RenderHostmapsOpen(mermaid)]
    /\ UNCHANGED <<hostMap, rlock, renderOther>>

\* renderHostmap of the next interface, lines 93-108: the header, and the
\* read lock of its hostmap
renderHostmapRLock ==
    /\ rend.at = "loop"
    /\ rend.i <= Len(rend.interfaces)
    /\ LET c == rend.interfaces[rend.i]
       IN /\ rlock' = [rlock EXCEPT ![c] = @ + 1]
          /\ rend' = [rend EXCEPT !.at = "hosts",
                                  !.loc = renderHostmapOpen(rend.mermaid, InterfaceOf(c))]
    /\ UNCHANGED <<hostMap, renderOther>>

\* renderHostmap, lines 110-152
renderHostmapHosts ==
    /\ rend.at = "hosts"
    /\ LET f == InterfaceOf(rend.interfaces[rend.i])
       IN \E keys \in Orders(DOMAIN f.hostMap.Hosts), copies \in Copies(f.hostMap.Hosts) :
            rend' = [rend EXCEPT !.at = "relays",
                        !.loc = renderHostmapHostsOf(rend.mermaid, f, @, keys, copies)]
    /\ UNCHANGED <<hostMap, rlock, renderOther>>

\* renderHostmap, lines 154-178
renderHostmapRelays ==
    /\ rend.at = "relays"
    /\ LET f == InterfaceOf(rend.interfaces[rend.i])
       IN \E keys \in Orders(DOMAIN f.hostMap.Relays) :
            rend' = [rend EXCEPT !.at = "indexes",
                        !.loc = renderHostmapRelaysOf(rend.mermaid, f, @, keys)]
    /\ UNCHANGED <<hostMap, rlock, renderOther>>

\* renderHostmap, lines 180-216
renderHostmapIndexes ==
    /\ rend.at = "indexes"
    /\ LET f == InterfaceOf(rend.interfaces[rend.i])
       IN \E keys \in Orders(DOMAIN f.hostMap.Indexes) :
            rend' = [rend EXCEPT !.at = "edges",
                        !.loc = renderHostmapIndexesOf(rend.mermaid, f, @, keys)]
    /\ UNCHANGED <<hostMap, rlock, renderOther>>

\* renderHostmap, lines 218-231, the deferred RUnlock, and the body of the
\* loop of RenderHostmaps, lines 37-54
renderHostmapReturn ==
    /\ rend.at = "edges"
    /\ LET c == rend.interfaces[rend.i]
           loc == renderHostmapEdgesOf(rend.mermaid, InterfaceOf(c), rend.loc)
       IN /\ rlock' = [rlock EXCEPT ![c] = @ - 1]
          /\ rend' = [rend EXCEPT !.at = "loop", !.i = @ + 1, !.loc = NoLoc,
                                  !.r = @ \o loc.r,
                                  !.se = @ \o loc.globalLines,
                                  !.lines = CollapseAll(@, loc.globalLines)]
    /\ UNCHANGED <<hostMap, renderOther>>

\* RenderHostmaps, lines 57-91
RenderHostmapsReturn ==
    /\ rend.at = "loop"
    /\ rend.i > Len(rend.interfaces)
    /\ rend' = [rend EXCEPT !.at = "done",
                            !.r = RenderHostmapsClose(rend.mermaid, @, rend.lines)]
    /\ UNCHANGED <<hostMap, rlock, renderOther>>

InitRender ==
    /\ hostMap = [c \in Clusters |-> NoHostMap]
    /\ rlock = [c \in Clusters |-> 0]
    /\ rend = NoRender
    /\ CAs = NewCAPool.CAs
    /\ certBlocklist = NewCAPool.certBlocklist
    /\ calls = <<>>
    /\ arg = <<>>
    /\ ret = NoRet
    /\ caPEMs = <<>>
    /\ warnings = <<>>
    /\ good = 0
    /\ now = 0
    /\ pc = "idle"
    /\ ReloadIdle
    /\ CloseIdle
    /\ PolicyIdle

NextRender ==
    \/ \E c \in Clusters : \E peer \in Peers(c), direct \in BOOLEAN :
        AddHostInfo(c, peer, direct)
    \/ \E c \in Clusters : \E peer \in Peers(c) : DeleteHostInfo(c, peer)
    \/ RenderHostmapsCall
    \/ renderHostmapRLock
    \/ renderHostmapHosts
    \/ renderHostmapRelays
    \/ renderHostmapIndexes
    \/ renderHostmapReturn
    \/ RenderHostmapsReturn

SpecRender == InitRender /\ [][NextRender]_vars


\* ---------------------------------------------------------------------------
\* Claims about RenderHostmaps
\* ---------------------------------------------------------------------------

\* renderHostmap of f when every range delivers its keys in ascending order
AscendingCopies(hosts) ==
    [ip \in DOMAIN hosts |->
        [ips |-> Ascending(hosts[ip].relays), idxs |-> Ascending(hosts[ip].relayForIdxs)]]

AscendingHostmap(mermaid, f) ==
    LET hm == f.hostMap
        l1 == renderHostmapHostsOf(mermaid, f, renderHostmapOpen(mermaid, f),
                                   Ascending(DOMAIN hm.Hosts), AscendingCopies(hm.Hosts))
        l2 == renderHostmapRelaysOf(mermaid, f, l1, Ascending(DOMAIN hm.Relays))
        l3 == renderHostmapIndexesOf(mermaid, f, l2, Ascending(DOMAIN hm.Indexes))
    IN renderHostmapEdgesOf(mermaid, f, l3)

\* RenderHostmaps of the hostmaps as they are, when every range delivers its
\* keys in ascending order
AscendingRender(mermaid, interfaces) ==
    LET sr(k) == AscendingHostmap(mermaid, InterfaceOf(interfaces[k]))
        acc[k \in 0..Len(interfaces)] ==
            IF k = 0 THEN [r |-> RenderHostmapsOpen(mermaid), lines |-> <<>>]
            ELSE [r |-> acc[k - 1].r \o sr(k).r,
                  lines |-> CollapseAll(acc[k - 1].lines, sr(k).globalLines)]
    IN RenderHostmapsClose(mermaid, acc[Len(interfaces)].r, acc[Len(interfaces)].lines)

\* the ids of the nodes of one cluster of the text r, in the order of the
\* text: the lines between the line that opens the cluster and its end
HeadFormats(section) ==
    CASE section = "Hosts" -> {"label=\"Hosts\"", "subgraph %s.hosts[\"Hosts\"]"}
      [] section = "Relays" -> {"label=\"Relays\"", "subgraph %s.relays[\"Relays\"]"}
      [] section = "Indexes" -> {"label=\"Indexes\"", "subgraph indexes.%s[\"Indexes\"]"}

NodesOf(r, section) ==
    LET heads == {k \in 1..Len(r) : r[k].f \in HeadFormats(section)}
        h == CHOOSE k \in heads : TRUE
        ends == {k \in (h + 1)..Len(r) : r[k].f \in {"}", "end"}}
        e == CHOOSE k \in ends : \A j \in ends : k <= j
    IN IF heads = {} THEN <<>> ELSE [j \in 1..(e - h - 1) |-> r[h + j].x]

StrictlyAscending(s) == \A i, j \in 1..Len(s) : i < j => s[i] < s[j]

StrictlyDescending(s) == \A i, j \in 1..Len(s) : i < j => s[i] > s[j]

Reverse(e, ge) == e.to = ge.from /\ e.from = ge.to

\* the edges between hosts as the finished text r shows them: its last lines
EdgeLines(r, n, mermaid) ==
    LET last == IF mermaid THEN Len(r) ELSE Len(r) - 1
    IN [k \in 1..n |-> r[last - n + k]]

\* C29: RenderHostmaps is deterministic and takes a consistent snapshot of
\* each hostmap.  The Hosts, Relays and Indexes of an interface are read
\* while one read lock of its hostmap is held; the hosts are written in
\* ascending order of their overlay address, the relay indexes and the local
\* indexes in descending order; the edges inside a host and the edges between
\* hosts are sorted; an edge between hosts whose reverse was collected
\* before it is merged with it into one edge marked dual.  Whatever order the
\* maps are iterated in, the part of an interface is the text of its hostmap
\* as it stands under the lock, and a render during which no hostmap changed
\* is the one text of these hostmaps.
C29_RenderDeterministic ==
    /\ \A c \in Clusters :
        rlock[c] = IF rend.at \in {"hosts", "relays", "indexes", "edges"}
                        /\ rend.interfaces[rend.i] = c
                   THEN 1 ELSE 0
    /\ rend.at = "edges" =>
        LET f == InterfaceOf(rend.interfaces[rend.i])
            loc == renderHostmapEdgesOf(rend.mermaid, f, rend.loc)
        IN /\ loc = AscendingHostmap(rend.mermaid, f)
           /\ NodesOf(loc.r, "Hosts") = Ascending(DOMAIN f.hostMap.Hosts)
           /\ StrictlyDescending(NodesOf(loc.r, "Relays"))
           /\ Range(NodesOf(loc.r, "Relays")) = DOMAIN f.hostMap.Relays
           /\ StrictlyDescending(NodesOf(loc.r, "Indexes"))
           /\ Range(NodesOf(loc.r, "Indexes")) = DOMAIN f.hostMap.Indexes
           /\ \A i, j \in 1..Len(loc.lines) : i < j => ~ArrowLess(loc.lines[j], loc.lines[i])
    /\ rend.at = "done" =>
        LET edges == EdgeLines(rend.r, Len(rend.lines), rend.mermaid)
        IN /\ \A i, j \in 1..Len(rend.lines) : ~Reverse(rend.lines[i], rend.lines[j])
           /\ \A k \in 1..Len(rend.lines) :
                rend.lines[k].dual <=> \E j \in 1..Len(rend.se) : Reverse(rend.se[j], rend.lines[k])
           /\ \A j \in 1..Len(rend.se) : \E k \in 1..Len(rend.lines) :
                \/ rend.lines[k].from = rend.se[j].from /\ rend.lines[k].to = rend.se[j].to
                \/ Reverse(rend.se[j], rend.lines[k])
           /\ \A i, j \in 1..Len(edges) : i < j =>
                \/ NodeLess(Node(edges[i].n1, edges[i].x), Node(edges[j].n1, edges[j].x))
                \/ /\ edges[i].n1 = edges[j].n1 /\ edges[i].x = edges[j].x
                   /\ ~NodeLess(Node(edges[j].n2, edges[j].y), Node(edges[i].n2, edges[i].y))
           /\ rend.same => rend.r = AscendingRender(rend.mermaid, rend.interfaces)

\* a render is done of hostmaps that did not change meanwhile: the first
\* interface has two hosts, one of them behind two relays, there are two
\* local indexes and a relay index, and the edge to the second interface was
\* merged with its reverse
C29_Witness ==
    /\ rend.at = "done"
    /\ rend.same
    /\ Cardinality(DOMAIN hostMap[1].Hosts) = 2
    /\ Cardinality(DOMAIN hostMap[1].Indexes) = 2
    /\ hostMap[1].Relays # <<>>
    /\ \E ip \in DOMAIN hostMap[1].Hosts : Cardinality(hostMap[1].Hosts[ip].relays) = 2
    /\ \E ip \in DOMAIN hostMap[2].Hosts : Cardinality(hostMap[2].Hosts[ip].relayForIdxs) = 2
    /\ \E k \in 1..Len(rend.lines) : rend.lines[k].dual
    /\ Len(rend.lines) >= 3

====
